---- MODULE Spec2Model ----
(***************************************************************************)
(* Removal-candidate report of the Sonar inventory export.                 *)
(*                                                                         *)
(* Three programs of the repository are modelled, each as its own          *)
(* specification over the same variables:                                  *)
(*   Spec       combine_removal_lists (the reconciliation engine of the    *)
(*              working copy), one step per candidate row and per          *)
(*              assembled output row;                                      *)
(*   SpecFilter filterServicableAddressesWithoutActiveAccounts, one step   *)
(*              per address of the response;                               *)
(*   SpecMain   main of GetRemovalsList.py, one step per statement group.  *)
(* SpecAll runs any one of the three.                                      *)
(*                                                                         *)
(* Values.  A text is a sequence of one-character strings, so that         *)
(* str.strip, str.split and str.lower are computed character by character. *)
(* A missing value (None, NaN, pd.NA) is the one-element sequence NA,      *)
(* which no text equals.  Reason literals are TLA+ strings; their          *)
(* code points (CodePoints) give Python's order on them.                   *)
(***************************************************************************)
EXTENDS Naturals, Sequences, FiniteSets, TLC

VARIABLES
    prog,                   \* which program this behaviour runs
    pc,                     \* position in the program
    idx,                    \* loop index of the current loop (1-based)
    df_inventory,           \* inventory table: sequence of rows
    df_accounts,            \* accounts table: [cols, rows]
    servicable_df,          \* serviceable-address candidates
    inactive_df,            \* inactive-account candidates
    uninstall_df,           \* uninstall-job candidates
    account_to_inventories, \* Account_id -> list of InventoryItem_id
    inventory_reasons,      \* insertion-ordered dict: seq of [iid, reasons]
    final_rows,             \* rows assembled so far
    df_final,               \* the returned table (NA until returned)
    addresses,              \* filter: the address entities of the response
    filtered_addresses,     \* filter: the candidate entries built so far
    api,                    \* main: what each query of the run returns
    queries,                \* main: the queries sent so far, in order
    result,                 \* build_api_request_and_execute: the value returned
    merged,                 \* main: the merged table
    uninstall_ids,          \* main: account ids with an uninstall job
    csv,                    \* main: the report written (Null: none)
    response,               \* flatteners: the response passed in
    flattened_data,         \* flatteners: the row dicts built so far
    df                      \* flatteners: the returned table (Null: none)

filterVars == <<addresses, filtered_addresses>>
mainVars   == <<api, queries, merged, uninstall_ids, csv, result>>
flattenVars == <<response, flattened_data, df>>

vars == <<prog, pc, idx, df_inventory, df_accounts, servicable_df, inactive_df,
          uninstall_df, account_to_inventories, inventory_reasons, final_rows,
          df_final, filterVars, mainVars, flattenVars>>

----------------------------------------------------------------------------
(* Bounds of the model *)

MaxInv  == 2    \* inventory rows in the inventory table
MaxAcc  == 2    \* rows in the accounts table
MaxCand == 2    \* candidate rows, the three lists together
MaxAddr == 2    \* address entities in the serviceable-address response
MaxHist == 2    \* assignment-history entries of one address

----------------------------------------------------------------------------
(* Values and Python/pandas primitives *)

NA == <<"<NA>">>

\* An optional JSON object is the empty sequence (null) or <<object>>
Null == <<>>
Some(x) == <<x>>

\* pd.notna / pd.isna
notna(v) == v # NA
isna(v)  == v = NA

\* Python truthiness of a cell: None and the empty string are falsy
Truthy(v) == v # NA /\ v # <<>>

\* a or b
PyOr(a, b) == IF Truthy(a) THEN a ELSE b

\* row.get(col, default) on a row (a function from column names to cells)
Get(row, col, default) == IF col \in DOMAIN row THEN row[col] ELSE default

IsSpace(c) == c \in {" ", "\t", "\n"}

RECURSIVE LStrip(_)
LStrip(s) == IF s # <<>> /\ IsSpace(Head(s)) THEN LStrip(Tail(s)) ELSE s

RECURSIVE RStrip(_)
RStrip(s) ==
    IF s # <<>> /\ IsSpace(s[Len(s)]) THEN RStrip(SubSeq(s, 1, Len(s) - 1)) ELSE s

\* str.strip()
Strip(s) == RStrip(LStrip(s))

\* str(x): a text is itself, an integer (kept as "#" and its digits) is
\* its decimal digits
Str(v) == IF v # <<>> /\ Head(v) = "#" THEN Tail(v) ELSE v

\* Series.astype('string').str.strip(): missing stays missing
StrStripCell(v) == IF isna(v) THEN NA ELSE Strip(Str(v))

\* str.split(sep) for a one-character separator: every part, empty ones too
RECURSIVE SplitFrom(_, _, _)
SplitFrom(s, sep, cur) ==
    IF s = <<>> THEN <<cur>>
    ELSE IF Head(s) = sep THEN <<cur>> \o SplitFrom(Tail(s), sep, <<>>)
    ELSE SplitFrom(Tail(s), sep, Append(cur, Head(s)))

Split(s, sep) == SplitFrom(s, sep, <<>>)

Upper == <<"A","B","C","D","E","F","G","H","I","J","K","L","M",
           "N","O","P","Q","R","S","T","U","V","W","X","Y","Z">>
Lowercase == <<"a","b","c","d","e","f","g","h","i","j","k","l","m",
               "n","o","p","q","r","s","t","u","v","w","x","y","z">>

LowerChar(c) ==
    IF \E i \in 1..Len(Upper) : Upper[i] = c
    THEN Lowercase[CHOOSE i \in 1..Len(Upper) : Upper[i] = c]
    ELSE c

\* str.lower()
Lower(s) == [i \in 1..Len(s) |-> LowerChar(s[i])]

\* sub in s
Contains(sub, s) ==
    \E i \in 1..(Len(s) + 1) :
        /\ i + Len(sub) - 1 <= Len(s)
        /\ SubSeq(s, i, i + Len(sub) - 1) = sub

\* elements of a sequence
Range(s) == {s[i] : i \in 1..Len(s)}

\* sequences over S of length at most n
SeqsUpTo(S, n) == UNION {[1..k -> S] : k \in 0..n}

----------------------------------------------------------------------------
(* Reason literals and their order *)

R_NullHistories == "NULL histories"
R_AnyMissing    == "Any account missing"
R_HasInactive   == "Has inactive account"
R_Inactive      == "Inactive Account with Inventory Assigned"
R_Uninstall     == "Uninstall Job"
R_Servicable    == "Servicable Address"
Delim           == " | "

CodePoints(r) ==
    CASE r = R_NullHistories ->
           <<78, 85, 76, 76, 32, 104, 105, 115, 116, 111, 114, 105, 101, 115>>
      [] r = R_AnyMissing ->
           <<65, 110, 121, 32, 97, 99, 99, 111, 117, 110, 116, 32, 109, 105,
             115, 115, 105, 110, 103>>
      [] r = R_HasInactive ->
           <<72, 97, 115, 32, 105, 110, 97, 99, 116, 105, 118, 101, 32, 97,
             99, 99, 111, 117, 110, 116>>
      [] r = R_Inactive ->
           <<73, 110, 97, 99, 116, 105, 118, 101, 32, 65, 99, 99, 111, 117,
             110, 116, 32, 119, 105, 116, 104, 32, 73, 110, 118, 101, 110,
             116, 111, 114, 121, 32, 65, 115, 115, 105, 103, 110, 101, 100>>
      [] r = R_Uninstall ->
           <<85, 110, 105, 110, 115, 116, 97, 108, 108, 32, 74, 111, 98>>
      [] r = R_Servicable ->
           <<83, 101, 114, 118, 105, 99, 97, 98, 108, 101, 32, 65, 100, 100,
             114, 101, 115, 115>>

\* Python's < on str: lexicographic on code points, a proper prefix is smaller
RECURSIVE LexLess(_, _)
LexLess(a, b) ==
    IF b = <<>> THEN FALSE
    ELSE IF a = <<>> THEN TRUE
    ELSE IF Head(a) # Head(b) THEN Head(a) < Head(b)
    ELSE LexLess(Tail(a), Tail(b))

StrLess(r1, r2) == LexLess(CodePoints(r1), CodePoints(r2))

\* Mutant of Sorted: descending order
RECURSIVE SortedDescending(_)
SortedDescending(S) ==
    IF S = {} THEN <<>>
    ELSE LET m == CHOOSE x \in S : \A y \in S \ {x} : StrLess(y, x)
         IN  <<m>> \o SortedDescending(S \ {m})

\* sorted(reasons) of a set of str
RECURSIVE Sorted(_)
Sorted(S) ==
    IF S = {} THEN <<>>
    ELSE LET m == CHOOSE x \in S : \A y \in S \ {x} : StrLess(x, y)
         IN  <<m>> \o Sorted(S \ {m})

\* delim.join(seq), kept as the sequence of its pieces
RECURSIVE Join(_, _)
Join(delim, s) ==
    IF s = <<>> THEN <<>>
    ELSE IF Len(s) = 1 THEN s
    ELSE <<Head(s), delim>> \o Join(delim, Tail(s))

----------------------------------------------------------------------------
(* Input tables and candidate lists *)

Digit == <<"1", "2", "3", "4", "5", "6", "7", "8", "9">>

\* Inventory item ids of the inventory table, and one id the table lacks
ItemId(n) == <<Digit[n]>>
ExtraId   == ItemId(MaxInv + 1)

\* The inline account snapshot of an inventory row: none, account 7 named A,
\* account 8 with surrounding blanks and no name
InlineAccounts ==
    { [id |-> NA, name |-> NA, status |-> NA],
      [id |-> <<"7">>, name |-> <<"A">>, status |-> <<"1">>],
      [id |-> <<" ", "8", " ">>, name |-> NA, status |-> <<"4">>] }

\* The line of an address id: missing when the address is
AddressLine(n, addr) == IF addr = NA THEN NA ELSE <<n>> \o addr

\* One row of flatten_inventory_items_response (the columns the report
\* reads) for an item at address addr with inline account acct
InvRowAt(id, addr, acct) ==
    ("InventoryItem_id" :> id) @@
    ("Account_id" :> acct.id) @@
    ("Account_name" :> acct.name) @@
    ("Account_account_status_id" :> acct.status) @@
    ("Address_id" :> addr) @@
    ("Address_line1" :> AddressLine("L", addr)) @@
    ("Address_line2" :> AddressLine("l", addr)) @@
    ("InventoryModel_model_name" :> NA) @@
    ("InventoryModel_name" :> <<"M">> \o id) @@
    ("FieldData_value" :> <<"m">> \o id) @@
    ("IPAssignment_subnet" :> <<"i">> \o id)

\* The row of an item that is alone at its own address
InvRow(id, acct) == InvRowAt(id, <<"a">> \o id, acct)

\* Inventory tables: k rows with the ids 1..k, each with any inline account
InventoryTables ==
    UNION { { [i \in 1..k |-> InvRow(ItemId(i), a[i])] :
                a \in [1..k -> InlineAccounts] } : k \in 0..MaxInv }

AccountIds == {<<"7">>, <<"8">>}

\* One row of the accounts table as flatten_accounts_response builds it,
\* for an account whose first address is addr
AccRowAt(id, addr) ==
    ("Account_id" :> id) @@
    ("Contact_email_address" :> <<"e">> \o id) @@
    ("PhoneNumber_number_formatted" :> <<"p">> \o id) @@
    ("AssignmentHistory1_end_date" :> <<"d">> \o id) @@
    ("Address_id" :> addr) @@
    ("Address_line1" :> AddressLine("K", addr)) @@
    ("Address_line2" :> AddressLine("k", addr))

\* The row of an account without addresses
AccRow(id) == AccRowAt(id, NA)

\* The same row in a table that also carries an Account_name column
AccRowNamed(id, name) == AccRow(id) @@ ("Account_name" :> name)

AccRows == {AccRow(id) : id \in AccountIds}
AccRowsNamed == {AccRowNamed(id, n) : id \in AccountIds, n \in {NA, <<"B">>}}

DistinctIds(rows) ==
    \A i, j \in 1..Len(rows) : i # j => rows[i]["Account_id"] # rows[j]["Account_id"]

Cols(rows) == IF rows = <<>> THEN {} ELSE DOMAIN rows[1]

\* Accounts tables: at most MaxAcc rows with distinct ids, all of one shape
AccountTables ==
    { [cols |-> Cols(r), rows |-> r] :
        r \in { t \in SeqsUpTo(AccRows, MaxAcc) \cup SeqsUpTo(AccRowsNamed, MaxAcc) :
                  DistinctIds(t) } }

T_Account       == <<"A", "c", "c", "o", "u", "n", "t">>
T_InventoryItem == <<"I", "n", "v", "e", "n", "t", "o", "r", "y", "I", "t", "e", "m">>

\* Rows of servicable_data (removals_lists): inventory_ids is a joined text
ServRows ==
    { ("inventory_ids" :> ItemId(1)) @@ ("reason" :> R_NullHistories),
      ("inventory_ids" :> ItemId(1) \o <<",", " ">> \o ItemId(2))
          @@ ("reason" :> R_NullHistories),
      ("inventory_ids" :> ItemId(2) \o <<",">> \o ExtraId)
          @@ ("reason" :> R_AnyMissing) }

\* Rows of inactiveAccout_data: account 7, and account 9 that owns nothing
InactRows ==
    { ("account_id" :> <<"7">>) @@ ("reason" :> R_Inactive),
      ("account_id" :> <<"9">>) @@ ("reason" :> R_Inactive) }

\* Rows of uninstall_data
UninstRows ==
    { ("entity_type" :> T_Account) @@ ("entity_id" :> <<"7">>)
          @@ ("reason" :> R_Uninstall),
      ("entity_type" :> T_Account) @@ ("entity_id" :> <<"8">>)
          @@ ("reason" :> R_Uninstall),
      ("entity_type" :> T_InventoryItem) @@ ("entity_id" :> <<"7">>)
          @@ ("reason" :> R_Uninstall) }

\* The three candidate lists, MaxCand rows at most between them
CandidateLists ==
    { c \in [serv : SeqsUpTo(ServRows, MaxCand),
             inact : SeqsUpTo(InactRows, MaxCand),
             uninst : SeqsUpTo(UninstRows, MaxCand)] :
        Len(c.serv) + Len(c.inact) + Len(c.uninst) <= MaxCand }

----------------------------------------------------------------------------
(* combine_removal_lists *)

\* Mutant of AddReason: the reason set is replaced, not extended
AddReasonOverwrites(d, k, r) ==
    IF \E i \in 1..Len(d) : d[i].iid = k
    THEN [i \in 1..Len(d) |->
            IF d[i].iid = k THEN [d[i] EXCEPT !.reasons = {r}] ELSE d[i]]
    ELSE Append(d, [iid |-> k, reasons |-> {r}])

\* defaultdict(set) with insertion order: inventory_reasons[k].add(r)
AddReason(d, k, r) ==
    IF \E i \in 1..Len(d) : d[i].iid = k
    THEN [i \in 1..Len(d) |->
            IF d[i].iid = k THEN [d[i] EXCEPT !.reasons = @ \cup {r}] ELSE d[i]]
    ELSE Append(d, [iid |-> k, reasons |-> {r}])

\* Mutant of AddReasonAll: an item keeps the first reason it was given
RECURSIVE AddReasonAllFirstWins(_, _, _)
AddReasonAllFirstWins(d, ids, r) ==
    IF ids = <<>> THEN d
    ELSE AddReasonAllFirstWins(
             IF \E i \in 1..Len(d) : d[i].iid = Head(ids)
             THEN d ELSE AddReason(d, Head(ids), r),
             Tail(ids), r)

\* for iid in ids: inventory_reasons[iid].add(reason)
RECURSIVE AddReasonAll(_, _, _)
AddReasonAll(d, ids, r) ==
    IF ids = <<>> THEN d
    ELSE AddReasonAll(AddReason(d, Head(ids), r), Tail(ids), r)

\* [p.strip() for p in parts if p.strip()]
RECURSIVE StripNonEmpty(_)
StripNonEmpty(parts) ==
    IF parts = <<>> THEN <<>>
    ELSE IF Strip(Head(parts)) # <<>>
         THEN <<Strip(Head(parts))>> \o StripNonEmpty(Tail(parts))
         ELSE StripNonEmpty(Tail(parts))

\* Mutant of expand_servicable_row_to_ids: the list is not split
expand_servicable_row_unsplit(row) ==
    LET one  == IF "inventory_id" \in DOMAIN row /\ notna(row["inventory_id"])
                THEN <<Str(row["inventory_id"])>> ELSE <<>>
        many == IF "inventory_ids" \in DOMAIN row /\ notna(row["inventory_ids"])
                THEN StripNonEmpty(<<Str(row["inventory_ids"])>>)
                ELSE <<>>
    IN  one \o many

expand_servicable_row_to_ids(row) ==
    LET one  == IF "inventory_id" \in DOMAIN row /\ notna(row["inventory_id"])
                THEN <<Str(row["inventory_id"])>> ELSE <<>>
        many == IF "inventory_ids" \in DOMAIN row /\ notna(row["inventory_ids"])
                THEN StripNonEmpty(Split(Str(row["inventory_ids"]), ","))
                ELSE <<>>
    IN  one \o many

\* df[col] = df[col].astype('string').str.strip()
NormalizeColumn(rows, col) ==
    [i \in 1..Len(rows) |-> [rows[i] EXCEPT ![col] = StrStripCell(@)]]

\* InventoryItem_id of the rows whose Account_id is key, in row order
RECURSIVE ItemsOfAccount(_, _)
ItemsOfAccount(rows, key) ==
    IF rows = <<>> THEN <<>>
    ELSE IF Head(rows)["Account_id"] = key
         THEN <<Head(rows)["InventoryItem_id"]>> \o ItemsOfAccount(Tail(rows), key)
         ELSE ItemsOfAccount(Tail(rows), key)

\* df.dropna(subset=['Account_id']).groupby('Account_id')['InventoryItem_id']
\*   .apply(list).to_dict()
BuildAccountIndex(rows) ==
    LET keys == {rows[i]["Account_id"] : i \in 1..Len(rows)} \ {NA}
    IN  [k \in keys |-> ItemsOfAccount(rows, k)]

\* account_to_inventories.get(key): the list, or the empty list for None
IndexGet(index, key) == IF key \in DOMAIN index THEN index[key] ELSE <<>>

\* ' | '.join(sorted(reasons))
ReasonString(reasons) == Join(Delim, Sorted(reasons))

\* df[df[col] == key]: the matching rows in order
RECURSIVE RowsWhere(_, _, _)
RowsWhere(rows, col, key) ==
    IF rows = <<>> THEN <<>>
    ELSE IF Head(rows)[col] = key
         THEN <<Head(rows)>> \o RowsWhere(Tail(rows), col, key)
         ELSE RowsWhere(Tail(rows), col, key)

\* The row emitted for an id the inventory table lacks
NullRow(iid, reasons) ==
    ("InventoryItem_id" :> iid) @@
    ("InventoryModel" :> NA) @@
    ("MAC" :> NA) @@
    ("IP" :> NA) @@
    ("Address_id" :> NA) @@
    ("Address_line1" :> NA) @@
    ("Reason on List" :> ReasonString(reasons)) @@
    ("Account_id" :> NA) @@
    ("Account_name" :> NA) @@
    ("Account_status" :> NA) @@
    ("Account_email" :> NA) @@
    ("Account_phone" :> NA) @@
    ("end_date" :> NA)

\* acc_row.iloc[0].get(col) when the table has a matching row and the column
AccountField(acc_row, cols, col) ==
    IF acc_row # <<>> /\ col \in cols THEN acc_row[1][col] ELSE NA

\* Mutant of ResolveAccountName: the accounts table is never consulted
ResolveAccountNameInlineOnly(acc_row, cols, inv) == inv["Account_name"]

\* Account_name of the row: the accounts table's when truthy, else inline
ResolveAccountName(acc_row, cols, inv) ==
    LET account_name == AccountField(acc_row, cols, "Account_name")
    IN  IF ~Truthy(account_name) THEN inv["Account_name"] ELSE account_name

\* The row emitted for an id found in the inventory table
DetailRow(iid, reasons, inv, accounts) ==
    LET acct_id  == inv["Account_id"]
        acct_key == IF notna(acct_id) THEN Strip(Str(acct_id)) ELSE NA
        acc_row  == IF notna(acct_key) /\ "Account_id" \in accounts.cols
                    THEN RowsWhere(accounts.rows, "Account_id", acct_key)
                    ELSE <<>>
    IN  ("InventoryItem_id" :> iid) @@
        ("InventoryModel" :>
            PyOr(inv["InventoryModel_model_name"], inv["InventoryModel_name"])) @@
        ("MAC" :> inv["FieldData_value"]) @@
        ("IP" :> inv["IPAssignment_subnet"]) @@
        ("Address_id" :> PyOr(inv["Address_id"], inv["Address_id"])) @@
        ("Address_line1" :> inv["Address_line1"]) @@
        ("Reason on List" :> ReasonString(reasons)) @@
        ("Account_id" :> acct_id) @@
        ("Account_name" :> ResolveAccountName(acc_row, accounts.cols, inv)) @@
        ("Account_status" :> inv["Account_account_status_id"]) @@
        ("Account_email" :>
            AccountField(acc_row, accounts.cols, "Contact_email_address")) @@
        ("Account_phone" :>
            AccountField(acc_row, accounts.cols, "PhoneNumber_number_formatted")) @@
        ("end_date" :>
            AccountField(acc_row, accounts.cols, "AssignmentHistory1_end_date"))

\* One iteration of the assembly loop
AssembleRow(entry, inventory, accounts) ==
    LET inv_row == RowsWhere(inventory, "InventoryItem_id", entry.iid)
    IN  IF inv_row = <<>> THEN NullRow(entry.iid, entry.reasons)
        ELSE DetailRow(entry.iid, entry.reasons, inv_row[1], accounts)

InitCombine ==
    /\ prog = "combine"
    /\ pc = "start"
    /\ idx = 1
    /\ df_inventory \in InventoryTables
    /\ df_accounts \in AccountTables
    /\ \E c \in CandidateLists :
          /\ servicable_df = c.serv
          /\ inactive_df = c.inact
          /\ uninstall_df = c.uninst
    /\ account_to_inventories = <<>>
    /\ inventory_reasons = <<>>
    /\ final_rows = <<>>
    /\ df_final = NA
    /\ addresses = <<>>
    /\ filtered_addresses = <<>>
    /\ api = <<>>
    /\ queries = <<>>
    /\ merged = <<>>
    /\ uninstall_ids = {}
    /\ csv = Null
    /\ response = <<>>
    /\ flattened_data = <<>>
    /\ df = Null
    /\ result = Null

\* Lines 880-892: normalise Account_id in both tables and build the index.
\* A table built from no entities has no columns: dropna raises KeyError.
BuildIndex ==
    /\ prog = "combine" /\ pc = "start"
    /\ IF {"Account_id", "InventoryItem_id"} \subseteq Cols(df_inventory)
       THEN /\ df_inventory' = NormalizeColumn(df_inventory, "Account_id")
            /\ df_accounts' =
                 IF "Account_id" \in df_accounts.cols
                 THEN [df_accounts EXCEPT
                         !.rows = NormalizeColumn(@, "Account_id")]
                 ELSE df_accounts
            /\ account_to_inventories' = BuildAccountIndex(df_inventory')
            /\ pc' = "servicable"
       ELSE /\ pc' = "raised"
            /\ UNCHANGED <<df_inventory, df_accounts, account_to_inventories>>
    /\ UNCHANGED <<filterVars, mainVars, flattenVars, prog, idx, servicable_df, inactive_df, uninstall_df,
                   inventory_reasons, final_rows, df_final>>

\* Lines 906-910: one serviceable-address candidate
ServicableStep ==
    /\ prog = "combine" /\ pc = "servicable" /\ idx <= Len(servicable_df)
    /\ LET r       == servicable_df[idx]
           inv_ids == expand_servicable_row_to_ids(r)
           reason  == Get(r, "reason", R_Servicable)
       IN  inventory_reasons' = AddReasonAll(inventory_reasons, inv_ids, reason)
    /\ idx' = idx + 1
    /\ UNCHANGED <<filterVars, mainVars, flattenVars, prog, pc, df_inventory, df_accounts, servicable_df, inactive_df,
                   uninstall_df, account_to_inventories, final_rows, df_final>>

ServicableDone ==
    /\ prog = "combine" /\ pc = "servicable" /\ idx > Len(servicable_df)
    /\ pc' = "inactive" /\ idx' = 1
    /\ UNCHANGED <<filterVars, mainVars, flattenVars, prog, df_inventory, df_accounts, servicable_df, inactive_df,
                   uninstall_df, account_to_inventories, inventory_reasons,
                   final_rows, df_final>>

\* Mutant of InactiveReasons: an account without inventory is filed under
\* its own id
InactiveReasonsKeepsUnmapped(d, r, index) ==
    LET acct == Get(r, "account_id", NA)
    IN  IF notna(acct)
        THEN IF IndexGet(index, Strip(Str(acct))) # <<>>
             THEN AddReasonAll(d, IndexGet(index, Strip(Str(acct))),
                               Get(r, "reason", R_Inactive))
             ELSE AddReason(d, Strip(Str(acct)), Get(r, "reason", R_Inactive))
        ELSE d

\* The reasons an inactive-account candidate adds (lines 914-924)
InactiveReasons(d, r, index) ==
    LET acct == Get(r, "account_id", NA)
    IN  IF notna(acct)
        THEN AddReasonAll(d, IndexGet(index, Strip(Str(acct))),
                          Get(r, "reason", R_Inactive))
        ELSE d

\* Lines 913-924: one inactive-account candidate
InactiveStep ==
    /\ prog = "combine" /\ pc = "inactive" /\ idx <= Len(inactive_df)
    /\ inventory_reasons' =
         InactiveReasons(inventory_reasons, inactive_df[idx], account_to_inventories)
    /\ idx' = idx + 1
    /\ UNCHANGED <<filterVars, mainVars, flattenVars, prog, pc, df_inventory, df_accounts, servicable_df, inactive_df,
                   uninstall_df, account_to_inventories, final_rows, df_final>>

InactiveDone ==
    /\ prog = "combine" /\ pc = "inactive" /\ idx > Len(inactive_df)
    /\ pc' = "uninstall" /\ idx' = 1
    /\ UNCHANGED <<filterVars, mainVars, flattenVars, prog, df_inventory, df_accounts, servicable_df, inactive_df,
                   uninstall_df, account_to_inventories, inventory_reasons,
                   final_rows, df_final>>

\* 'account' in str(entity_type or '').lower()
IsAccountType(entity_type) ==
    Contains(<<"a", "c", "c", "o", "u", "n", "t">>, Lower(Str(PyOr(entity_type, <<>>))))

\* Mutant of UninstallReasons: the uninstall reason replaces the reasons
\* the items had
UninstallReasonsReplaces(d, r, index) ==
    LET eid     == Get(r, "entity_id", NA)
        eid_key == IF notna(eid) THEN Strip(Str(eid)) ELSE NA
        ids     == IndexGet(index, eid_key)
        Kept(e) == \A p \in 1..Len(ids) : ids[p] # e.iid
    IN  IF IsAccountType(Get(r, "entity_type", NA))
        THEN AddReasonAll(SelectSeq(d, Kept), ids, Get(r, "reason", R_Uninstall))
        ELSE d

\* The reasons an uninstall-job candidate adds (lines 928-941)
UninstallReasons(d, r, index) ==
    LET eid     == Get(r, "entity_id", NA)
        eid_key == IF notna(eid) THEN Strip(Str(eid)) ELSE NA
    IN  IF IsAccountType(Get(r, "entity_type", NA))
        THEN AddReasonAll(d, IndexGet(index, eid_key), Get(r, "reason", R_Uninstall))
        ELSE d

\* Lines 927-941: one uninstall-job candidate
UninstallStep ==
    /\ prog = "combine" /\ pc = "uninstall" /\ idx <= Len(uninstall_df)
    /\ inventory_reasons' =
         UninstallReasons(inventory_reasons, uninstall_df[idx], account_to_inventories)
    /\ idx' = idx + 1
    /\ UNCHANGED <<filterVars, mainVars, flattenVars, prog, pc, df_inventory, df_accounts, servicable_df, inactive_df,
                   uninstall_df, account_to_inventories, final_rows, df_final>>

UninstallDone ==
    /\ prog = "combine" /\ pc = "uninstall" /\ idx > Len(uninstall_df)
    /\ pc' = "assemble" /\ idx' = 1
    /\ UNCHANGED <<filterVars, mainVars, flattenVars, prog, df_inventory, df_accounts, servicable_df, inactive_df,
                   uninstall_df, account_to_inventories, inventory_reasons,
                   final_rows, df_final>>

\* Mutant of AssembleStep: an id the inventory table lacks gets no row
AssembleStepDropsUnknown ==
    /\ prog = "combine" /\ pc = "assemble" /\ idx <= Len(inventory_reasons)
    /\ final_rows' =
         IF RowsWhere(df_inventory, "InventoryItem_id", inventory_reasons[idx].iid) = <<>>
         THEN final_rows
         ELSE Append(final_rows,
                     AssembleRow(inventory_reasons[idx], df_inventory, df_accounts))
    /\ idx' = idx + 1
    /\ UNCHANGED <<filterVars, mainVars, flattenVars, prog, pc, df_inventory, df_accounts, servicable_df, inactive_df,
                   uninstall_df, account_to_inventories, inventory_reasons, df_final>>

\* Lines 945-1004: one entry of inventory_reasons
AssembleStep ==
    /\ prog = "combine" /\ pc = "assemble" /\ idx <= Len(inventory_reasons)
    /\ final_rows' =
         Append(final_rows,
                AssembleRow(inventory_reasons[idx], df_inventory, df_accounts))
    /\ idx' = idx + 1
    /\ UNCHANGED <<filterVars, mainVars, flattenVars, prog, pc, df_inventory, df_accounts, servicable_df, inactive_df,
                   uninstall_df, account_to_inventories, inventory_reasons, df_final>>

\* Lines 1006-1007: return pd.DataFrame(final_rows)
Return ==
    /\ prog = "combine" /\ pc = "assemble" /\ idx > Len(inventory_reasons)
    /\ df_final' = final_rows
    /\ pc' = "done"
    /\ UNCHANGED <<filterVars, mainVars, flattenVars, prog, idx, df_inventory, df_accounts, servicable_df, inactive_df,
                   uninstall_df, account_to_inventories, inventory_reasons,
                   final_rows>>

Next ==
    \/ BuildIndex
    \/ ServicableStep
    \/ ServicableDone
    \/ InactiveStep
    \/ InactiveDone
    \/ UninstallStep
    \/ UninstallDone
    \/ AssembleStep
    \/ Return

Spec == InitCombine /\ [][Next]_vars

\* combine_removal_lists called on tables whose keys are not plain texts:
\* each InventoryItem_id is a text, a text with blanks around it or an
\* integer; each inline Account_id is missing, empty, the integer 7 or the
\* text 8 with blanks around it; an inactive-account candidate may carry a
\* blank account id.
InitKeys ==
    LET KeyIds(n) == {ItemId(n), <<" ">> \o ItemId(n) \o <<" ">>,
                      <<"#">> \o ItemId(n)}
        KeyAccounts ==
            { [id |-> NA, name |-> NA, status |-> NA],
              [id |-> <<>>, name |-> NA, status |-> NA],
              [id |-> <<"#", "7">>, name |-> <<"A">>, status |-> <<"1">>],
              [id |-> <<" ", "8", " ">>, name |-> NA, status |-> <<"4">>] }
        KeyServRows ==
            { ("inventory_ids" :> ItemId(1)) @@ ("reason" :> R_NullHistories) }
        KeyInactRows ==
            { ("account_id" :> <<"7">>) @@ ("reason" :> R_Inactive),
              ("account_id" :> <<" ">>) @@ ("reason" :> R_Inactive) }
        KeyUninstRows ==
            { ("entity_type" :> T_Account) @@ ("entity_id" :> <<"8">>)
                  @@ ("reason" :> R_Uninstall) }
    IN  /\ prog = "combine"
        /\ pc = "start"
        /\ idx = 1
        /\ \E k \in 1..MaxInv :
              \E ids \in [1..k -> UNION {KeyIds(n) : n \in 1..k}] :
                \E a \in [1..k -> KeyAccounts] :
                  /\ \A i \in 1..k : ids[i] \in KeyIds(i)
                  /\ df_inventory = [i \in 1..k |-> InvRow(ids[i], a[i])]
        /\ df_accounts \in
              { [cols |-> Cols(r), rows |-> r] :
                  r \in { t \in SeqsUpTo(AccRows, MaxAcc) : DistinctIds(t) } }
        /\ servicable_df \in SeqsUpTo(KeyServRows, MaxCand)
        /\ inactive_df \in SeqsUpTo(KeyInactRows, MaxCand)
        /\ uninstall_df \in SeqsUpTo(KeyUninstRows, MaxCand)
        /\ Len(servicable_df) + Len(inactive_df) + Len(uninstall_df) <= MaxCand
        /\ account_to_inventories = <<>>
        /\ inventory_reasons = <<>>
        /\ final_rows = <<>>
        /\ df_final = NA
        /\ addresses = <<>>
        /\ filtered_addresses = <<>>
        /\ api = <<>>
        /\ queries = <<>>
        /\ merged = <<>>
        /\ uninstall_ids = {}
        /\ csv = Null
        /\ response = <<>>
        /\ flattened_data = <<>>
        /\ df = Null
        /\ result = Null

SpecKeys == InitKeys /\ [][Next]_vars

----------------------------------------------------------------------------
(* filterServicableAddressesWithoutActiveAccounts *)

T_Active   == <<"A", "c", "t", "i", "v", "e">>
T_Inactive == <<"I", "n", "a", "c", "t", "i", "v", "e">>

\* A history entry: its account is null, or has a status that is null or
\* carries a name
H_NoAccount == [account |-> Null]
H_NoStatus  == [account |-> Some([account_status |-> Null])]
H_Status(name) == [account |-> Some([account_status |-> Some([name |-> name])])]

Histories == {H_NoAccount, H_NoStatus, H_Status(T_Active), H_Status(T_Inactive)}

\* The inventory items attached to the n-th address of the response: two,
\* none, one, two, ...
AddressItems(n) ==
    CASE n % 3 = 1 -> <<ItemId(1), ItemId(2)>>
      [] n % 3 = 2 -> <<>>
      [] n % 3 = 0 -> <<ItemId(1)>>

\* The address entities of a response: the n-th has id "a<n>"
AddressEntity(n, hist) ==
    [id |-> <<"a", Digit[n]>>, type |-> <<"P">>, histories |-> hist,
     inventory_items |-> AddressItems(n)]

AddressLists ==
    UNION { { [n \in 1..k |-> AddressEntity(n, h[n])] :
                h \in [1..k -> SeqsUpTo(Histories, MaxHist)] } : k \in 0..MaxAddr }

\* sep.join(texts) as one text
RECURSIVE JoinText(_, _)
JoinText(sep, texts) ==
    IF texts = <<>> THEN <<>>
    ELSE IF Len(texts) = 1 THEN texts[1]
    ELSE texts[1] \o sep \o JoinText(sep, Tail(texts))

\* ', '.join(inventory_ids) if inventory_ids else 'None'
InventoryIdsText(ids) ==
    IF ids # <<>> THEN JoinText(<<",", " ">>, ids) ELSE <<"N", "o", "n", "e">>

\* any(h.get('account') is None for h in histories)
AnyNoAccount(histories) ==
    \E i \in 1..Len(histories) : histories[i].account = Null

\* any(h.get('account', {}).get('account_status', {}).get('name') != 'Active'
\*     for h in histories), evaluated in order: "raise" when a null
\* account_status is reached before an entry that is not Active
RECURSIVE HasInactive(_)
HasInactive(histories) ==
    IF histories = <<>> THEN "false"
    ELSE LET status == Head(histories).account[1].account_status
         IN  IF status = Null THEN "raise"
             ELSE IF status[1].name # T_Active THEN "true"
             ELSE HasInactive(Tail(histories))

\* The outcome for one address: a reason, "skip" or "raise"
Classify(histories) ==
    IF histories = <<>> THEN R_NullHistories
    ELSE IF AnyNoAccount(histories) THEN R_AnyMissing
    ELSE CASE HasInactive(histories) = "true"  -> R_HasInactive
           [] HasInactive(histories) = "false" -> "skip"
           [] HasInactive(histories) = "raise" -> "raise"

CandidateEntry(address, reason) ==
    [id |-> address.id, type |-> address.type,
     inventory_ids |-> InventoryIdsText(address.inventory_items),
     reason |-> reason]

InitFilter ==
    /\ prog = "filter"
    /\ pc = "addresses"
    /\ idx = 1
    /\ addresses \in AddressLists
    /\ filtered_addresses = <<>>
    /\ df_inventory = <<>>
    /\ df_accounts = [cols |-> {}, rows |-> <<>>]
    /\ servicable_df = <<>>
    /\ inactive_df = <<>>
    /\ uninstall_df = <<>>
    /\ account_to_inventories = <<>>
    /\ inventory_reasons = <<>>
    /\ final_rows = <<>>
    /\ df_final = NA
    /\ api = <<>>
    /\ queries = <<>>
    /\ merged = <<>>
    /\ uninstall_ids = {}
    /\ csv = Null
    /\ response = <<>>
    /\ flattened_data = <<>>
    /\ df = Null
    /\ result = Null

combineVars == <<df_inventory, df_accounts, servicable_df, inactive_df,
                 uninstall_df, account_to_inventories, inventory_reasons,
                 final_rows, df_final>>

\* Lines 400-441: one address of the response
FilterStep ==
    /\ prog = "filter" /\ pc = "addresses" /\ idx <= Len(addresses)
    /\ LET address == addresses[idx]
           outcome == Classify(address.histories)
       IN  CASE outcome = "raise" ->
                  /\ pc' = "raised"
                  /\ UNCHANGED <<idx, filtered_addresses>>
             [] outcome = "skip" ->
                  /\ idx' = idx + 1
                  /\ UNCHANGED <<pc, filtered_addresses>>
             [] OTHER ->
                  /\ filtered_addresses' =
                       Append(filtered_addresses, CandidateEntry(address, outcome))
                  /\ idx' = idx + 1
                  /\ UNCHANGED pc
    /\ UNCHANGED <<prog, addresses, combineVars, mainVars, flattenVars>>

\* Line 442: return filtered_addresses
FilterReturn ==
    /\ prog = "filter" /\ pc = "addresses" /\ idx > Len(addresses)
    /\ pc' = "done"
    /\ UNCHANGED <<prog, idx, addresses, filtered_addresses, combineVars, mainVars, flattenVars>>

NextFilter ==
    \/ FilterStep
    \/ FilterReturn

SpecFilter == InitFilter /\ [][NextFilter]_vars

----------------------------------------------------------------------------
(* removals_lists: the filter's entries become the serviceable candidates *)

\* Address lists whose addresses have one history at most
ShortAddressLists ==
    { l \in AddressLists : \A n \in 1..Len(l) : Len(l[n].histories) <= 1 }

\* The response of the address query, the two tables, and the inactive and
\* uninstall lists of removals_lists, one candidate each or none
InitChain ==
    /\ prog = "filter"
    /\ pc = "addresses"
    /\ idx = 1
    /\ addresses \in ShortAddressLists
    /\ filtered_addresses = <<>>
    /\ df_inventory \in InventoryTables
    /\ df_accounts \in AccountTables
    /\ servicable_df = <<>>
    /\ inactive_df \in {<<>>, <<("account_id" :> <<"7">>) @@ ("reason" :> R_Inactive)>>}
    /\ uninstall_df \in {<<>>, <<("entity_type" :> T_Account) @@ ("entity_id" :> <<"8">>)
                                    @@ ("reason" :> R_Uninstall)>>}
    /\ account_to_inventories = <<>>
    /\ inventory_reasons = <<>>
    /\ final_rows = <<>>
    /\ df_final = NA
    /\ api = <<>>
    /\ queries = <<>>
    /\ merged = <<>>
    /\ uninstall_ids = {}
    /\ csv = Null
    /\ response = <<>>
    /\ flattened_data = <<>>
    /\ df = Null
    /\ result = Null

\* Lines 533-543 and 1100: one serviceable candidate per entry of the
\* filter, its inventory_ids text and reason copied, handed to
\* combine_removal_lists
RemovalsLists ==
    /\ prog = "filter" /\ pc = "done"
    /\ servicable_df' =
         [i \in 1..Len(filtered_addresses) |->
            ("address_id" :> filtered_addresses[i].id) @@
            ("type" :> filtered_addresses[i].type) @@
            ("inventory_ids" :> filtered_addresses[i].inventory_ids) @@
            ("reason" :> filtered_addresses[i].reason)]
    /\ prog' = "combine"
    /\ pc' = "start"
    /\ idx' = 1
    /\ UNCHANGED <<filterVars, mainVars, flattenVars, df_inventory, df_accounts,
                   inactive_df, uninstall_df, account_to_inventories,
                   inventory_reasons, final_rows, df_final>>

NextChain ==
    \/ NextFilter
    \/ RemovalsLists
    \/ Next

SpecChain == InitChain /\ [][NextChain]_vars

----------------------------------------------------------------------------
(* main of GetRemovalsList.py *)

DigitChars == {"0", "1", "2", "3", "4", "5", "6", "7", "8", "9"}

\* str.isdigit()
isdigit(t) == t # <<>> /\ \A i \in 1..Len(t) : t[i] \in DigitChars

\* An integer is kept as "#" followed by its decimal digits without
\* leading zeros, so that it never equals a text
RECURSIVE DropZeros(_)
DropZeros(t) == IF Len(t) > 1 /\ Head(t) = "0" THEN DropZeros(Tail(t)) ELSE t

\* int(x) of a digit text
IntOf(t) == <<"#">> \o DropZeros(t)

\* pd.to_numeric(cell, errors='coerce') followed by astype('Int64'), on
\* missing cells and on texts of digits with blanks around them
ToNumeric(v) ==
    IF isna(v) THEN NA
    ELSE IF isdigit(Strip(v)) THEN IntOf(Strip(v))
    ELSE NA

ToNumericColumn(rows, col) ==
    [i \in 1..Len(rows) |-> [rows[i] EXCEPT ![col] = ToNumeric(@)]]

Active_1  == IntOf(<<"1">>)
Active_11 == IntOf(<<"1", "1">>)

M_NoAccount == "inventory with no account"
M_Inactive  == "inventory assigned to Inactive account"
M_Uninstall == "uninstall job"
M_Delim     == "; "

\* Mutant of build_reason: the uninstall-job rule is applied first
build_reason_uninstall_first(row, ids) ==
    LET status  == row["Account_account_status_id"]
        acct    == row["Account_id_inv"]
        reasons ==
            (IF ~isna(acct) /\ acct \in ids THEN <<M_Uninstall>> ELSE <<>>)
            \o (IF isna(row["Account_id_inv"]) THEN <<M_NoAccount>> ELSE <<>>)
            \o (IF ~isna(status) /\ status \notin {Active_1, Active_11}
                THEN <<M_Inactive>> ELSE <<>>)
    IN  IF reasons # <<>> THEN Join(M_Delim, reasons) ELSE NA

\* build_reason(row, uninstall_ids): the joined reasons, or None
build_reason(row, ids) ==
    LET status  == row["Account_account_status_id"]
        acct    == row["Account_id_inv"]
        reasons ==
            (IF isna(row["Account_id_inv"]) THEN <<M_NoAccount>> ELSE <<>>)
            \o (IF ~isna(status) /\ status \notin {Active_1, Active_11}
                THEN <<M_Inactive>> ELSE <<>>)
            \o (IF ~isna(acct) /\ acct \in ids THEN <<M_Uninstall>> ELSE <<>>)
    IN  IF reasons # <<>> THEN Join(M_Delim, reasons) ELSE NA

\* Column names of a merge: a column of both tables that is not the key
\* gets the suffix of its side
MergedName(c, overlap, suffix) == IF c \in overlap THEN c \o suffix ELSE c

\* One row of df_inventory.merge(df_accounts, on=key, how='left',
\* suffixes=('_inv', '_acc')) from a left row and a right row
MergedRow(l, r, key) ==
    LET overlap == (DOMAIN l \cap DOMAIN r) \ {key}
        rcols   == DOMAIN r \ {key}
        names   == {MergedName(c, overlap, "_inv") : c \in DOMAIN l}
                   \cup {MergedName(c, overlap, "_acc") : c \in rcols}
    IN  [n \in names |->
            IF \E c \in DOMAIN l : MergedName(c, overlap, "_inv") = n
            THEN l[CHOOSE c \in DOMAIN l : MergedName(c, overlap, "_inv") = n]
            ELSE r[CHOOSE c \in rcols : MergedName(c, overlap, "_acc") = n]]

\* The left merge: every left row in order, once per right row with an
\* equal key (two missing keys are equal to pandas), or once with the
\* right columns missing
RECURSIVE LeftMerge(_, _, _, _)
LeftMerge(left, right, rcols, key) ==
    IF left = <<>> THEN <<>>
    ELSE LET l       == Head(left)
             matches == RowsWhere(right, key, l[key])
             rows    == IF matches = <<>>
                        THEN <<MergedRow(l, [c \in rcols |-> NA], key)>>
                        ELSE [i \in 1..Len(matches) |-> MergedRow(l, matches[i], key)]
         IN  rows \o LeftMerge(Tail(left), right, rcols, key)

\* merged["reason"] = None
WithColumn(rows, col, v) == [i \in 1..Len(rows) |-> rows[i] @@ (col :> v)]

\* df.drop_duplicates(subset=[col]): the first row of each value is kept
RECURSIVE DropDuplicatesFrom(_, _, _)
DropDuplicatesFrom(rows, col, seen) ==
    IF rows = <<>> THEN <<>>
    ELSE IF Head(rows)[col] \in seen
         THEN DropDuplicatesFrom(Tail(rows), col, seen)
         ELSE <<Head(rows)>>
              \o DropDuplicatesFrom(Tail(rows), col, seen \cup {Head(rows)[col]})

\* Mutant of drop_duplicates: every row is kept
drop_duplicates_keeps_all(rows, col) == rows

drop_duplicates(rows, col) == DropDuplicatesFrom(rows, col, {})

\* df[df[col].notnull()]
RECURSIVE NotNull(_, _)
NotNull(rows, col) ==
    IF rows = <<>> THEN <<>>
    ELSE IF notna(Head(rows)[col]) THEN <<Head(rows)>> \o NotNull(Tail(rows), col)
    ELSE NotNull(Tail(rows), col)

\* The rename of lines 779-794: new name -> old name
RenameMap ==
    ("InventoryItem_id" :> "InventoryItem_id") @@
    ("InventoryModel" :> "InventoryModel_model_name") @@
    ("MAC" :> "FieldData_value") @@
    ("IP" :> "IPAssignment_subnet") @@
    ("Address_id" :> "Address_id") @@
    ("Address_line1" :> "Address_line1_inv") @@
    ("Address_line2" :> "Address_line2_inv") @@
    ("Reason" :> "reason") @@
    ("Account_id" :> "Account_id_inv") @@
    ("Account_name" :> "Account_name_inv") @@
    ("Account_status" :> "Account_account_status_id") @@
    ("Account_email" :> "Contact_email_address") @@
    ("Account_phone" :> "PhoneNumber_number_formatted") @@
    ("end_date" :> "AssignmentHistory1_end_date")

\* df.rename(columns=...): columns the table lacks are ignored
Renamed(row) ==
    LET old   == {RenameMap[n] : n \in DOMAIN RenameMap}
        new(c) == IF c \in old
                  THEN CHOOSE n \in DOMAIN RenameMap : RenameMap[n] = c
                  ELSE c
    IN  [n \in {new(c) : c \in DOMAIN row} |->
            row[CHOOSE c \in DOMAIN row : new(c) = n]]

\* cols of line 799
CsvCols ==
    <<"InventoryItem_id", "InventoryModel", "MAC", "IP", "Address_id",
      "Address_line1", "Address_line2", "Reason", "Account_id", "Account_name",
      "Account_status", "Account_email", "Account_phone", "end_date">>

\* Mutant of SelectColumns: every column of the table is kept
SelectEveryColumn(rows, cols) == rows

\* df[cols]
SelectColumns(rows, cols) ==
    [i \in 1..Len(rows) |-> [c \in Range(cols) |-> rows[i][c]]]

\* Where an inventory item sits: no address, or the address a1 with any
\* inline account
A1 == <<"a", "1">>

Placements ==
    {[addr |-> NA, acct |-> [id |-> NA, name |-> NA, status |-> NA]]}
    \cup {[addr |-> A1, acct |-> a] : a \in InlineAccounts}

MainInventoryTables ==
    UNION { { [i \in 1..k |-> InvRowAt(ItemId(i), pl[i].addr, pl[i].acct)] :
                pl \in [1..k -> Placements] } : k \in 0..MaxInv }

\* The accounts table of flatten_accounts_response: accounts with distinct
\* ids whose first address is a1 or who have no address
MainAccountTables ==
    { [cols |-> Cols(r), rows |-> r] :
        r \in { t \in SeqsUpTo({AccRowAt(id, addr) : id \in AccountIds,
                                                    addr \in {NA, A1}}, MaxAcc) :
                  DistinctIds(t) } }

\* What the three queries of a run give: the flattened response, or Null
\* when the request fails.  build_api_request_and_execute (140-193) fails
\* either by returning None (a non-200 status, line 179, or an errors array,
\* line 187) or by an exception of requests.post or response.json (a
\* timeout, a connection error, a malformed body); failed_by tells which.
ApiOutcomes ==
    { a \in [inventory : {Null} \cup {Some(t) : t \in MainInventoryTables},
             accounts  : {Null} \cup {Some(t) : t \in MainAccountTables},
             jobs      : {Null} \cup {Some(j) : j \in SeqsUpTo(UninstRows, MaxCand)},
             failed_by : {"none_returned", "exception"}] :
        a.failed_by = "exception" =>
            Null \in {a.inventory, a.accounts, a.jobs} }

InitMain ==
    /\ prog = "main"
    /\ pc = "fetch_inventory"
    /\ idx = 1
    /\ api \in ApiOutcomes
    /\ queries = <<>>
    /\ merged = <<>>
    /\ uninstall_ids = {}
    /\ csv = Null
    /\ response = <<>>
    /\ flattened_data = <<>>
    /\ df = Null
    /\ result = Null
    /\ df_inventory = <<>>
    /\ df_accounts = [cols |-> {}, rows |-> <<>>]
    /\ servicable_df = <<>>
    /\ inactive_df = <<>>
    /\ uninstall_df = <<>>
    /\ account_to_inventories = <<>>
    /\ inventory_reasons = <<>>
    /\ final_rows = <<>>
    /\ df_final = NA
    /\ addresses = <<>>
    /\ filtered_addresses = <<>>

restVars == <<servicable_df, inactive_df, account_to_inventories,
              inventory_reasons, final_rows, filterVars, flattenVars, result>>

\* Lines 712-717
FetchInventory ==
    /\ prog = "main" /\ pc = "fetch_inventory"
    /\ queries' = Append(queries, "query_getInventoryItems")
    /\ IF api.inventory = Null
       THEN /\ pc' = IF api.failed_by = "exception" THEN "raised" ELSE "returned"
            /\ UNCHANGED df_inventory
       ELSE pc' = "fetch_accounts" /\ df_inventory' = api.inventory[1]
    /\ UNCHANGED <<prog, idx, api, merged, uninstall_ids, csv, df_accounts,
                   uninstall_df, df_final, restVars>>

\* Lines 721-725
FetchAccounts ==
    /\ prog = "main" /\ pc = "fetch_accounts"
    /\ queries' = Append(queries, "query_getAccounts")
    /\ IF api.accounts = Null
       THEN /\ pc' = IF api.failed_by = "exception" THEN "raised" ELSE "returned"
            /\ UNCHANGED df_accounts
       ELSE pc' = "merge" /\ df_accounts' = api.accounts[1]
    /\ UNCHANGED <<prog, idx, api, merged, uninstall_ids, csv, df_inventory,
                   uninstall_df, df_final, restVars>>

\* Lines 733-751: the column check, the key normalisation, the left merge,
\* the reason column and the numeric status
Merge ==
    /\ prog = "main" /\ pc = "merge"
    /\ IF "Address_id" \in Cols(df_inventory) /\ "Address_id" \in df_accounts.cols
       THEN /\ df_inventory' = NormalizeColumn(df_inventory, "Address_id")
            /\ df_accounts' =
                 [df_accounts EXCEPT !.rows = NormalizeColumn(@, "Address_id")]
            /\ merged' =
                 ToNumericColumn(
                     WithColumn(LeftMerge(df_inventory', df_accounts'.rows,
                                          df_accounts.cols, "Address_id"),
                                "reason", NA),
                     "Account_account_status_id")
            /\ pc' = "uninstall_ids"
       ELSE /\ pc' = "raised"
            /\ UNCHANGED <<df_inventory, df_accounts, merged>>
    /\ UNCHANGED <<prog, idx, api, queries, uninstall_ids, csv, uninstall_df, df_final,
                   restVars>>

\* set(int(x) for x in set(entity_id.dropna()) if str(x).isdigit())
UninstallIdSet(jobs) ==
    { IntOf(Str(jobs[i]["entity_id"])) : i \in
        { n \in 1..Len(jobs) :
            notna(jobs[n]["entity_id"]) /\ isdigit(Str(jobs[n]["entity_id"])) } }

\* Mutant of UninstallIds: a failed job request counts as no job
UninstallIdsIgnoringFailure ==
    /\ prog = "main" /\ pc = "uninstall_ids"
    /\ queries' = Append(queries, "query_uninstallJobs")
    /\ uninstall_df' = IF api.jobs = Null THEN <<>> ELSE api.jobs[1]
    /\ uninstall_ids' = UninstallIdSet(uninstall_df')
    /\ merged' = ToNumericColumn(merged, "Account_id_inv")
    /\ pc' = "build_reason"
    /\ UNCHANGED <<prog, idx, api, csv, df_inventory, df_accounts, df_final,
                   restVars>>

\* Lines 754-758 with Get_UninstallJobs_List (328-343): a failed request
\* (None) cannot be subscripted, and a table built from no job has no
\* entity_id column
UninstallIds ==
    /\ prog = "main" /\ pc = "uninstall_ids"
    /\ queries' = Append(queries, "query_uninstallJobs")
    /\ IF api.jobs # Null /\ api.jobs[1] # <<>>
       THEN /\ uninstall_df' = api.jobs[1]
            /\ uninstall_ids' = UninstallIdSet(api.jobs[1])
            /\ merged' = ToNumericColumn(merged, "Account_id_inv")
            /\ pc' = "build_reason"
       ELSE /\ pc' = "raised"
            /\ UNCHANGED <<uninstall_df, uninstall_ids, merged>>
    /\ UNCHANGED <<prog, idx, api, csv, df_inventory, df_accounts, df_final,
                   restVars>>

\* Line 760
BuildReasons ==
    /\ prog = "main" /\ pc = "build_reason"
    /\ merged' = [i \in 1..Len(merged) |->
                    [merged[i] EXCEPT !["reason"] = build_reason(merged[i], uninstall_ids)]]
    /\ pc' = "drop_duplicates"
    /\ UNCHANGED <<prog, idx, api, queries, uninstall_ids, csv, df_inventory, df_accounts,
                   uninstall_df, df_final, restVars>>

\* Line 768
DropDuplicates ==
    /\ prog = "main" /\ pc = "drop_duplicates"
    /\ df_final' = drop_duplicates(merged, "InventoryItem_id")
    /\ pc' = "write_csv"
    /\ UNCHANGED <<prog, idx, api, queries, merged, uninstall_ids, csv, df_inventory,
                   df_accounts, uninstall_df, restVars>>

\* Mutant of FilteredReport: rows without a reason are written too
FilteredReportKeepsAll(rows) ==
    SelectColumns([i \in 1..Len(rows) |-> Renamed(rows[i])], CsvCols)

\* The table written by lines 776-801
FilteredReport(rows) ==
    SelectColumns([i \in 1..Len(NotNull(rows, "reason")) |->
                      Renamed(NotNull(rows, "reason")[i])], CsvCols)

\* Lines 776-802
WriteCsv ==
    /\ prog = "main" /\ pc = "write_csv"
    /\ csv' = Some([cols |-> CsvCols, rows |-> FilteredReport(df_final)])
    /\ pc' = "done"
    /\ UNCHANGED <<prog, idx, api, queries, merged, uninstall_ids, df_inventory,
                   df_accounts, uninstall_df, df_final, restVars>>

NextMain ==
    \/ FetchInventory
    \/ FetchAccounts
    \/ Merge
    \/ UninstallIds
    \/ BuildReasons
    \/ DropDuplicates
    \/ WriteCsv

SpecMain == InitMain /\ [][NextMain]_vars

-----------------------------------------------------------------------------
(* build_api_request_and_execute *)

\* A call of build_api_request_and_execute(query, payload) and what the
\* endpoint does with the request: api holds the two arguments, whether an
\* API key is configured, and the outcome of requests.post: an exception (a
\* timeout, a connection error), or a status code with a body that is not
\* JSON (Null) or is a JSON object.
InitExec ==
    LET Bodies == { <<>>,
                    ("data" :> <<"d">>),
                    ("errors" :> <<"e">>),
                    ("data" :> <<"d">>) @@ ("errors" :> <<"e">>) }
    IN  /\ prog = "execute"
        /\ pc = "start"
        /\ api \in [query   : {Null, Some(<<"q">>)},
                    payload : {Null, Some(<<>>), Some(("query" :> <<"p">>))},
                    api_key : {Null, Some(<<"k">>)},
                    post    : {"exception", "response"},
                    status  : {200, 204, 500},
                    body    : {Null} \cup {Some(b) : b \in Bodies}]
        /\ api.post = "exception" => (api.status = 200 /\ api.body = Null)
        /\ idx = 1
        /\ queries = <<>>
        /\ response = <<>>
        /\ result = Null
        /\ merged = <<>>
        /\ uninstall_ids = {}
        /\ csv = Null
        /\ flattened_data = <<>>
        /\ df = Null
        /\ df_inventory = <<>>
        /\ df_accounts = [cols |-> {}, rows |-> <<>>]
        /\ servicable_df = <<>>
        /\ inactive_df = <<>>
        /\ uninstall_df = <<>>
        /\ account_to_inventories = <<>>
        /\ inventory_reasons = <<>>
        /\ final_rows = <<>>
        /\ df_final = NA
        /\ addresses = <<>>
        /\ filtered_addresses = <<>>

\* Mutant of Execute: a body with an errors key is returned too
ExecuteKeepsErrors ==
    /\ prog = "execute" /\ pc = "start"
    /\ IF api.query = Null /\ api.payload = Null
       THEN /\ result' = Null
            /\ pc' = "done"
            /\ UNCHANGED <<queries, response>>
       ELSE /\ queries' =
                 Append(queries,
                        [json |-> IF api.payload = Null
                                  THEN ("query" :> api.query[1])
                                  ELSE api.payload[1],
                         authorization |-> api.api_key])
            /\ IF api.post = "exception"
               THEN pc' = "raised" /\ UNCHANGED <<response, result>>
               ELSE /\ response' = [status_code |-> api.status, json |-> api.body]
                    /\ IF api.status # 200
                       THEN result' = Null /\ pc' = "done"
                       ELSE IF api.body = Null
                       THEN pc' = "raised" /\ UNCHANGED result
                       ELSE /\ result' = Some(api.body[1])
                            /\ pc' = "done"
    /\ UNCHANGED <<prog, idx, api, merged, uninstall_ids, csv, combineVars,
                   filterVars, flattened_data, df>>

\* Lines 148-193: the whole call.  Without query and payload it returns
\* None at once (148-150).  Otherwise it posts the payload, or the query
\* wrapped as a payload (165-168), with the Authorization header when a key
\* is configured (160-161); an exception of requests.post (171) or of
\* response.json (185) leaves the function; a status other than 200 gives
\* None (178-181), a parsed body with an errors key gives None (187-190),
\* any other parsed body is returned (192).
Execute ==
    /\ prog = "execute" /\ pc = "start"
    /\ IF api.query = Null /\ api.payload = Null
       THEN /\ result' = Null
            /\ pc' = "done"
            /\ UNCHANGED <<queries, response>>
       ELSE /\ queries' =
                 Append(queries,
                        [json |-> IF api.payload = Null
                                  THEN ("query" :> api.query[1])
                                  ELSE api.payload[1],
                         authorization |-> api.api_key])
            /\ IF api.post = "exception"
               THEN pc' = "raised" /\ UNCHANGED <<response, result>>
               ELSE /\ response' = [status_code |-> api.status, json |-> api.body]
                    /\ IF api.status # 200
                       THEN result' = Null /\ pc' = "done"
                       ELSE IF api.body = Null
                       THEN pc' = "raised" /\ UNCHANGED result
                       ELSE /\ result' = IF "errors" \in DOMAIN api.body[1]
                                         THEN Null ELSE Some(api.body[1])
                            /\ pc' = "done"
    /\ UNCHANGED <<prog, idx, api, merged, uninstall_ids, csv, combineVars,
                   filterVars, flattened_data, df>>

SpecExec == InitExec /\ [][Execute]_vars

\* Any one of the three programs
InitAll == InitCombine \/ InitFilter \/ InitMain

NextAll ==
    \/ Next
    \/ NextFilter
    \/ NextMain

SpecAll == InitAll /\ [][NextAll]_vars

----------------------------------------------------------------------------
(* flatten_inventory_items_response and flatten_accounts_response *)
(*                                                                         *)
(* A JSON object is a function from its keys to values; a key the object   *)
(* lacks is outside its domain.  The value of an object-valued key is      *)
(* Null (JSON null) or Some(object); the value of `entities` is a          *)
(* sequence; a scalar is a text or NA (JSON null).  An operator that can   *)
(* raise returns Null for the exception and Some(value) otherwise.         *)

\* obj.get(key): None when the key is absent
GetOpt(obj, key) == IF key \in DOMAIN obj THEN obj[key] ELSE Null

\* obj.get(key, {}): the default only replaces an absent key, not a null
GetObject(obj, key) == IF key \in DOMAIN obj THEN obj[key] ELSE Some(<<>>)

\* `if x:` on the result of obj.get(key): false for None and for {}
TruthyObject(o) == o # Null /\ DOMAIN o[1] # {}

\* obj.get(key, {}).get('entities', []): raises AttributeError when the
\* value of key is null
Entities(obj, key) ==
    IF GetObject(obj, key) = Null THEN Null
    ELSE Some(Get(GetObject(obj, key)[1], "entities", <<>>))

\* {column: obj.get(key)} for the columns of a group
Fill(fields, obj) == [c \in DOMAIN fields |-> Get(obj, fields[c], NA)]

\* {column: None} for the columns of an else-branch
NullFill(columns) == [c \in columns |-> NA]

\* row.update(d)
Update(row, d) == d @@ row

\* flatten_inventory_items_response: the columns each object of an item
\* fills, as column :> key read with .get (lines 34-44, 53-79, 88-108,
\* 192-197, 212-219, 240-248, 254-268)
InventoryFields ==
    [item |->
          ("inventoryitemable_type" :> "inventoryitemable_type") @@
          ("inventoryitemable_id" :> "inventoryitemable_id") @@
          ("deployment_type_id" :> "deployment_type_id") @@
          ("inventory_model_id" :> "inventory_model_id") @@
          ("account_service_id" :> "account_service_id") @@
          ("InventoryItem_id" :> "id") @@
          ("InventoryItem_sonar_unique_id" :> "sonar_unique_id") @@
          ("InventoryItem_created_at" :> "created_at") @@
          ("InventoryItem_updated_at" :> "updated_at"),
     address |->
          ("Address_address_status_id" :> "Address_address_status_id") @@
          ("Address_line1" :> "Address_line1") @@
          ("Address_line2" :> "Address_line2") @@
          ("Address_city" :> "Address_city") @@
          ("Address_county" :> "Address_county") @@
          ("Address_subdivision" :> "Address_subdivision") @@
          ("Address_zip" :> "Address_zip") @@
          ("Address_country" :> "Address_country") @@
          ("Address_latitude" :> "Address_latitude") @@
          ("Address_longitude" :> "Address_longitude") @@
          ("Address_fips" :> "Address_fips") @@
          ("Address_type" :> "Address_type") @@
          ("Address_addressable_type" :> "Address_addressable_type") @@
          ("Address_addressable_id" :> "Address_addressable_id") @@
          ("Address_serviceable" :> "Address_serviceable") @@
          ("Address_is_anchor" :> "Address_is_anchor") @@
          ("Address_anchor_address_id" :> "Address_anchor_address_id") @@
          ("Address_billing_default_id" :> "Address_billing_default_id") @@
          ("Address_attainable_download_speed" :> "Address_attainable_download_speed") @@
          ("Address_attainable_upload_speed" :> "Address_attainable_upload_speed") @@
          ("Address_timezone" :> "Address_timezone") @@
          ("Address_id" :> "Address_id") @@
          ("Address_sonar_unique_id" :> "Address_sonar_unique_id") @@
          ("Address_created_at" :> "Address_created_at") @@
          ("Address_updated_at" :> "Address_updated_at"),
     account |->
          ("Account_name" :> "Account_name") @@
          ("Account_archived_at" :> "Account_archived_at") @@
          ("Account_archived_by_user_id" :> "Account_archived_by_user_id") @@
          ("Account_account_status_id" :> "Account_account_status_id") @@
          ("Account_account_type_id" :> "Account_account_type_id") @@
          ("Account_is_delinquent" :> "Account_is_delinquent") @@
          ("Account_is_eligible_for_archive" :> "Account_is_eligible_for_archive") @@
          ("Account_company_id" :> "Account_company_id") @@
          ("Account_activation_date" :> "Account_activation_date") @@
          ("Account_next_bill_date" :> "Account_next_bill_date") @@
          ("Account_parent_account_id" :> "Account_parent_account_id") @@
          ("Account_geopoint" :> "Account_geopoint") @@
          ("Account_data_usage_percentage" :> "Account_data_usage_percentage") @@
          ("Account_next_recurring_charge_amount" :> "Account_next_recurring_charge_amount") @@
          ("Account_disconnection_reason_id" :> "Account_disconnection_reason_id") @@
          ("Account_id" :> "Account_id") @@
          ("Account_sonar_unique_id" :> "Account_sonar_unique_id") @@
          ("Account_created_at" :> "Account_created_at") @@
          ("Account_updated_at" :> "Account_updated_at"),
     deployment_type |->
          ("DeploymentType_name" :> "name") @@
          ("DeploymentType_inventory_model_id" :> "inventory_model_id") @@
          ("DeploymentType_network_monitoring_template_id" :> "network_monitoring_template_id") @@
          ("DeploymentType_id" :> "id"),
     inventory_model |->
          ("InventoryModel_enabled" :> "enabled") @@
          ("InventoryModel_manufacturer_id" :> "manufacturer_id") @@
          ("InventoryModel_inventory_model_category_id" :> "inventory_model_category_id") @@
          ("InventoryModel_icon" :> "icon") @@
          ("InventoryModel_model_name" :> "model_name") @@
          ("InventoryModel_name" :> "name"),
     field_data |->
          ("FieldData_inventory_model_field_id" :> "inventory_model_field_id") @@
          ("FieldData_inventory_item_id" :> "inventory_item_id") @@
          ("FieldData_value" :> "value") @@
          ("FieldData_id" :> "id"),
     inventory_model_field |->
          ("FieldData_inventory_model_field_id_nested" :> "inventory_model_id") @@
          ("FieldData_name" :> "name") @@
          ("FieldData_type" :> "type"),
     ip_assignment |->
          ("IPAssignment_account_service_id" :> "account_service_id") @@
          ("IPAssignment_subnet" :> "subnet") @@
          ("IPAssignment_soft" :> "soft") @@
          ("IPAssignment_reference" :> "reference") @@
          ("IPAssignment_description" :> "description") @@
          ("IPAssignment_subnet_id" :> "subnet_id") @@
          ("IPAssignment_ip_pool_id" :> "ip_pool_id") @@
          ("IPAssignment_ipassignmentable_type" :> "ipassignmentable_type") @@
          ("IPAssignment_ipassignmentable_id" :> "ipassignmentable_id") @@
          ("IPAssignment_id" :> "id") @@
          ("IPAssignment_sonar_unique_id" :> "sonar_unique_id") @@
          ("IPAssignment_created_at" :> "created_at") @@
          ("IPAssignment_updated_at" :> "updated_at")]

\* The columns each else-branch fills with None (lines 111-131, 135-161,
\* 164-184, 199-204, 221-228, 270-284, 286-307)
InventoryNulls ==
    [account |->
          {"Account_name", "Account_archived_at",
           "Account_archived_by_user_id", "Account_account_status_id",
           "Account_account_type_id", "Account_is_delinquent",
           "Account_is_eligible_for_archive", "Account_company_id",
           "Account_activation_date", "Account_next_bill_date",
           "Account_parent_account_id", "Account_geopoint",
           "Account_data_usage_percentage",
           "Account_next_recurring_charge_amount",
           "Account_disconnection_reason_id", "Account_id",
           "Account_sonar_unique_id", "Account_created_at",
           "Account_updated_at"},
     address |->
          {"Address_address_status_id", "Address_line1",
           "Address_line2", "Address_city", "Address_county",
           "Address_subdivision", "Address_zip", "Address_country",
           "Address_latitude", "Address_longitude", "Address_fips",
           "Address_type", "Address_addressable_type",
           "Address_addressable_id", "Address_serviceable",
           "Address_is_anchor", "Address_anchor_address_id",
           "Address_billing_default_id",
           "Address_attainable_download_speed",
           "Address_attainable_upload_speed", "Address_timezone",
           "Address_id", "Address_sonar_unique_id",
           "Address_created_at", "Address_updated_at"},
     account_no_address |->
          {"Account_name", "Account_archived_at",
           "Account_archived_by_user_id", "Account_account_status_id",
           "Account_account_type_id", "Account_is_delinquent",
           "Account_is_eligible_for_archive", "Account_company_id",
           "Account_activation_date", "Account_next_bill_date",
           "Account_parent_account_id", "Account_geopoint",
           "Account_data_usage_percentage",
           "Account_next_recurring_charge_amount",
           "Account_disconnection_reason_id", "Account_id",
           "Account_sonar_unique_id", "Account_created_at",
           "Account_updated_at"},
     deployment_type |->
          {"DeploymentType_name", "DeploymentType_inventory_model_id",
           "DeploymentType_network_monitoring_template_id",
           "DeploymentType_id"},
     inventory_model |->
          {"InventoryModel_enabled", "InventoryModel_manufacturer_id",
           "InventoryModel_inventory_model_category_id",
           "InventoryModel_icon", "InventoryModel_model_name",
           "InventoryModel_name"},
     ip_assignment |->
          {"IPAssignment_account_service_id", "IPAssignment_subnet",
           "IPAssignment_soft", "IPAssignment_reference",
           "IPAssignment_description", "IPAssignment_subnet_id",
           "IPAssignment_ip_pool_id",
           "IPAssignment_ipassignmentable_type",
           "IPAssignment_ipassignmentable_id", "IPAssignment_id",
           "IPAssignment_sonar_unique_id", "IPAssignment_created_at",
           "IPAssignment_updated_at"},
     field_data |->
          {"FieldData_inventory_model_field_id",
           "FieldData_inventory_item_id", "FieldData_value",
           "FieldData_id",
           "FieldData_inventory_model_field_id_nested",
           "FieldData_name", "FieldData_type",
           "IPAssignment_account_service_id", "IPAssignment_subnet",
           "IPAssignment_soft", "IPAssignment_reference",
           "IPAssignment_description", "IPAssignment_subnet_id",
           "IPAssignment_ip_pool_id",
           "IPAssignment_ipassignmentable_type",
           "IPAssignment_ipassignmentable_id", "IPAssignment_id",
           "IPAssignment_sonar_unique_id", "IPAssignment_created_at",
           "IPAssignment_updated_at"}]

\* flatten_accounts_response: column :> key for the first contact, its
\* first phone number and the first address (lines 86-91, 97-101, 127-144)
AccountsFields ==
    [contact |->
          ("Contact_name" :> "name") @@
          ("Contact_role" :> "role") @@
          ("Contact_primary" :> "primary") @@
          ("Contact_email_address" :> "email_address"),
     phone_number |->
          ("PhoneNumber_country" :> "country") @@
          ("PhoneNumber_number" :> "number") @@
          ("PhoneNumber_number_formatted" :> "number_formatted"),
     address |->
          ("Address_address_status_id" :> "address_status_id") @@
          ("Address_line1" :> "line1") @@
          ("Address_line2" :> "line2") @@
          ("Address_city" :> "city") @@
          ("Address_county" :> "county") @@
          ("Address_subdivision" :> "subdivision") @@
          ("Address_zip" :> "zip") @@
          ("Address_country" :> "country") @@
          ("Address_latitude" :> "latitude") @@
          ("Address_longitude" :> "longitude") @@
          ("Address_fips" :> "fips") @@
          ("Address_type" :> "type") @@
          ("Address_addressable_type" :> "addressable_type") @@
          ("Address_addressable_id" :> "addressable_id") @@
          ("Address_serviceable" :> "serviceable") @@
          ("Address_id" :> "id")]

\* The columns each else-branch fills with None (lines 103-107, 109-117,
\* 146-163)
AccountsNulls ==
    [phone_number |->
          {"PhoneNumber_country", "PhoneNumber_number",
           "PhoneNumber_number_formatted"},
     contact |->
          {"Contact_name", "Contact_role", "Contact_primary",
           "Contact_email_address", "PhoneNumber_country",
           "PhoneNumber_number", "PhoneNumber_number_formatted"},
     address |->
          {"Address_address_status_id", "Address_line1",
           "Address_line2", "Address_city", "Address_county",
           "Address_subdivision", "Address_zip", "Address_country",
           "Address_latitude", "Address_longitude", "Address_fips",
           "Address_type", "Address_addressable_type",
           "Address_addressable_id", "Address_serviceable",
           "Address_id"}]

\* Mutant of AddressAndAccount: an item without address gets no Account
\* columns
AddressAndAccountNoFill(item) ==
    LET inventoryitemable == GetOpt(item, "inventoryitemable")
        addressable == GetOpt(inventoryitemable[1], "addressable")
    IN  IF TruthyObject(inventoryitemable)
        THEN Update(Fill(InventoryFields.address, inventoryitemable[1]),
                    IF TruthyObject(addressable)
                    THEN Fill(InventoryFields.account, addressable[1])
                    ELSE NullFill(InventoryNulls.account))
        ELSE NullFill(InventoryNulls.address)

\* Lines 49-184: the Address and Account columns of an item
AddressAndAccount(item) ==
    LET inventoryitemable == GetOpt(item, "inventoryitemable")
        addressable == GetOpt(inventoryitemable[1], "addressable")
    IN  IF TruthyObject(inventoryitemable)
        THEN Update(Fill(InventoryFields.address, inventoryitemable[1]),
                    IF TruthyObject(addressable)
                    THEN Fill(InventoryFields.account, addressable[1])
                    ELSE NullFill(InventoryNulls.account))
        ELSE Update(NullFill(InventoryNulls.address),
                    NullFill(InventoryNulls.account_no_address))

\* Lines 189-228: the DeploymentType and InventoryModel columns
TypeAndModel(item) ==
    LET deployment_type == GetOpt(item, "deployment_type")
        inventory_model == GetOpt(item, "inventory_model")
    IN  Update(IF TruthyObject(deployment_type)
               THEN Fill(InventoryFields.deployment_type, deployment_type[1])
               ELSE NullFill(InventoryNulls.deployment_type),
               IF TruthyObject(inventory_model)
               THEN Fill(InventoryFields.inventory_model, inventory_model[1])
               ELSE NullFill(InventoryNulls.inventory_model))

\* Mutant of FieldDataAndIP: the last field datum is the one flattened
FieldDataAndIPOfLast(item) ==
    LET field_data_list == Entities(item, "inventory_model_field_data")
        field_data      == field_data_list[1][Len(field_data_list[1])]
        model_field     == GetObject(field_data, "inventory_model_field")
        ip_assignments  == Entities(field_data, "ip_assignments")
    IN  IF field_data_list = Null THEN Null
        ELSE IF Len(field_data_list[1]) = 0
        THEN Some(NullFill(InventoryNulls.field_data))
        ELSE IF model_field = Null \/ ip_assignments = Null THEN Null
        ELSE Some(Update(
                 Update(Fill(InventoryFields.field_data, field_data),
                        Fill(InventoryFields.inventory_model_field, model_field[1])),
                 IF Len(ip_assignments[1]) > 0
                 THEN Fill(InventoryFields.ip_assignment, ip_assignments[1][1])
                 ELSE NullFill(InventoryNulls.ip_assignment)))

\* Lines 235-307: the FieldData and IPAssignment columns, from the first
\* field datum and its first IP assignment; Null when a .get is applied to
\* a null inventory_model_field_data, inventory_model_field or
\* ip_assignments
FieldDataAndIP(item) ==
    LET field_data_list == Entities(item, "inventory_model_field_data")
        field_data      == field_data_list[1][1]
        model_field     == GetObject(field_data, "inventory_model_field")
        ip_assignments  == Entities(field_data, "ip_assignments")
    IN  IF field_data_list = Null THEN Null
        ELSE IF Len(field_data_list[1]) = 0
        THEN Some(NullFill(InventoryNulls.field_data))
        ELSE IF model_field = Null \/ ip_assignments = Null THEN Null
        ELSE Some(Update(
                 Update(Fill(InventoryFields.field_data, field_data),
                        Fill(InventoryFields.inventory_model_field, model_field[1])),
                 IF Len(ip_assignments[1]) > 0
                 THEN Fill(InventoryFields.ip_assignment, ip_assignments[1][1])
                 ELSE NullFill(InventoryNulls.ip_assignment)))

\* Lines 32-309: the row of one inventory item
FlattenItem(item) ==
    IF FieldDataAndIP(item) = Null THEN Null
    ELSE Some(Update(Update(Update(Fill(InventoryFields.item, item),
                                   AddressAndAccount(item)),
                            TypeAndModel(item)),
                     FieldDataAndIP(item)[1]))

\* pd.DataFrame(rows): the columns are the keys of all rows, a row lacking
\* a column holds NaN there
DataFrame(rows) ==
    LET cols == UNION {DOMAIN rows[i] : i \in 1..Len(rows)}
    IN  [cols |-> cols,
         rows |-> [i \in 1..Len(rows) |-> [c \in cols |-> Get(rows[i], c, NA)]]]

\* Mutant of LastN: the leading n
FirstN(s, n) == IF Len(s) <= n THEN s ELSE SubSeq(s, 1, n)

\* s[-n:]
LastN(s, n) == IF Len(s) <= n THEN s ELSE SubSeq(s, Len(s) - n + 1, Len(s))

\* reversed(s)
Reverse(s) == [i \in 1..Len(s) |-> s[Len(s) + 1 - i]]

\* The keys read from an assignment history (lines 71-75)
HistoryFields == {"created_at", "end_date", "id", "account_id", "address_id"}

\* f'AssignmentHistory{i}_{field}'
SlotColumn(i, field) == "AssignmentHistory" \o Digit[i] \o "_" \o field

\* Lines 55-76: the three slots start as None; the last three histories,
\* reversed, fill slot 1, 2, 3
HistorySlots(assignment_histories) ==
    LET last_3_histories == IF assignment_histories # <<>>
                            THEN LastN(assignment_histories, 3) ELSE <<>>
        rev   == Reverse(last_3_histories)
        empty == [c \in {SlotColumn(i, f) : i \in 1..3, f \in HistoryFields} |-> NA]
        taken == [c \in {SlotColumn(p, f) : p \in 1..Len(rev), f \in HistoryFields} |->
                    LET p == CHOOSE q \in 1..Len(rev) :
                                 \E f \in HistoryFields : SlotColumn(q, f) = c
                        f == CHOOSE g \in HistoryFields : SlotColumn(p, g) = c
                    IN  Get(rev[p], f, NA)]
    IN  Update(empty, taken)

\* Mutant of ContactAndPhone: the last contact and its last phone number
ContactAndPhoneOfLast(contacts_list) ==
    LET contact       == contacts_list[Len(contacts_list)]
        phone_numbers == Entities(contact, "phone_numbers")
    IN  IF Len(contacts_list) = 0 THEN Some(NullFill(AccountsNulls.contact))
        ELSE IF phone_numbers = Null THEN Null
        ELSE Some(Update(Fill(AccountsFields.contact, contact),
                         IF Len(phone_numbers[1]) > 0
                         THEN Fill(AccountsFields.phone_number,
                                   phone_numbers[1][Len(phone_numbers[1])])
                         ELSE NullFill(AccountsNulls.phone_number)))

\* Lines 82-117: the first contact and its first phone number; Null when
\* phone_numbers is null
ContactAndPhone(contacts_list) ==
    LET contact       == contacts_list[1]
        phone_numbers == Entities(contact, "phone_numbers")
    IN  IF Len(contacts_list) = 0 THEN Some(NullFill(AccountsNulls.contact))
        ELSE IF phone_numbers = Null THEN Null
        ELSE Some(Update(Fill(AccountsFields.contact, contact),
                         IF Len(phone_numbers[1]) > 0
                         THEN Fill(AccountsFields.phone_number, phone_numbers[1][1])
                         ELSE NullFill(AccountsNulls.phone_number)))

\* Lines 123-163: the first address
FirstAddress(addresses_list) ==
    IF Len(addresses_list) > 0
    THEN Fill(AccountsFields.address, addresses_list[1])
    ELSE NullFill(AccountsNulls.address)

\* Lines 42-165: the row of one account; Null when a .get is applied to a
\* null histories, contacts, phone_numbers or addresses object
FlattenAccount(account) ==
    LET histories == Entities(account, "serviceable_address_account_assignment_histories")
        contacts  == Entities(account, "contacts")
        addrs     == Entities(account, "addresses")
    IN  IF histories = Null \/ contacts = Null THEN Null
        ELSE IF ContactAndPhone(contacts[1]) = Null \/ addrs = Null THEN Null
        ELSE Some(Update(Update(Update(("Account_id" :> Get(account, "id", NA)),
                                       HistorySlots(histories[1])),
                                ContactAndPhone(contacts[1])[1]),
                         FirstAddress(addrs[1])))

\* response.get('data', {}).get(root, {}).get('entities', []) of lines 30
\* and 40: Null when data or the root object is null
ResponseEntities(resp, root) ==
    IF GetObject(resp, "data") = Null THEN Null
    ELSE Entities(GetObject(resp, "data")[1], root)

----------------------------------------------------------------------------
(* Responses given to the flatteners *)

MaxAccHist == 4    \* assignment histories of one account

\* obj with key set to null, to an object, or left out
WithKey(obj, key, kind, value) ==
    IF kind = "absent" THEN obj
    ELSE (key :> (IF kind = "null" THEN Null ELSE Some(value))) @@ obj

\* A connection: {entities: list}
Connection(list) == [entities |-> list]

\* The field data of item i: no key, null, no entity, a datum without
\* nested keys, a datum with a null or an empty ip_assignments, a datum
\* with a model field and two IP assignments, and two data of which the
\* second has the IP assignment
FieldDataShapes ==
    {"absent", "null", "empty", "bare", "null_ip", "no_ip", "ip", "two"}

Datum(id, n) == ("id" :> <<"f", n>> \o id) @@ ("value" :> <<"m", n>> \o id)

IPAssignmentOf(id, n) == ("id" :> <<"p", n>> \o id) @@ ("subnet" :> <<"i", n>> \o id)

FieldDataOf(id, shape) ==
    LET full(n) == WithKey(
                     WithKey(Datum(id, n), "inventory_model_field", "object",
                             ("name" :> <<"M", "A", "C">>)),
                     "ip_assignments", "object",
                     Connection(<<IPAssignmentOf(id, n), IPAssignmentOf(id, "9")>>))
    IN  CASE shape = "empty"   -> <<>>
          [] shape = "bare"    -> <<Datum(id, "1")>>
          [] shape = "null_ip" -> <<WithKey(Datum(id, "1"), "ip_assignments", "null", <<>>)>>
          [] shape = "no_ip"   -> <<WithKey(Datum(id, "1"), "ip_assignments", "object",
                                            Connection(<<>>))>>
          [] shape = "ip"      -> <<full("1")>>
          [] shape = "two"     -> <<Datum(id, "1"), full("2")>>
          [] OTHER             -> <<>>

\* The address of an item: no key, null, an address without addressable
\* key, with a null addressable, with an account
ItemableShapes == {"absent", "null", "bare", "null_account", "account"}

ItemableOf(id, shape) ==
    LET address == ("Address_id" :> <<"a">> \o id) @@
                   ("Address_line1" :> <<"L">> \o id)
        account == ("Account_id" :> <<"7">>) @@ ("Account_name" :> <<"A">>) @@
                   ("Account_account_status_id" :> <<"1">>)
    IN  WithKey(address, "addressable",
                CASE shape = "bare" -> "absent"
                  [] shape = "null_account" -> "null"
                  [] OTHER -> "object",
                account)

ObjectShapes == {"absent", "null", "object"}

KindOf(shape) == IF shape \in {"absent", "null"} THEN shape ELSE "object"

ItemShapes ==
    [itemable : ItemableShapes, aux : ObjectShapes, field_data : FieldDataShapes]

\* The i-th inventory item of a response, of a given shape
ItemOf(i, s) ==
    WithKey(
      WithKey(
        WithKey(
          WithKey(("id" :> ItemId(i)) @@ ("inventory_model_id" :> <<"5">>),
                  "inventoryitemable", KindOf(s.itemable),
                  ItemableOf(ItemId(i), s.itemable)),
          "deployment_type", s.aux, ("id" :> <<"3">>) @@ ("name" :> <<"D">>)),
        "inventory_model", s.aux,
        ("model_name" :> <<"X">>) @@ ("name" :> <<"M">> \o ItemId(i))),
      "inventory_model_field_data", KindOf(s.field_data),
      Connection(FieldDataOf(ItemId(i), s.field_data)))

HistoryShapes ==
    {[kind |-> "absent", n |-> 0], [kind |-> "null", n |-> 0]}
    \cup {[kind |-> "object", n |-> k] : k \in 0..MaxAccHist}

\* The k-th assignment history of an account, in API order
HistoryOf(id, k) ==
    ("id" :> <<"h", Digit[k]>> \o id) @@ ("end_date" :> <<"d", Digit[k]>> \o id) @@
    ("created_at" :> <<"c", Digit[k]>> \o id) @@ ("account_id" :> id) @@
    ("address_id" :> <<"a", Digit[k]>>)

\* The contacts of an account: no key, null, none, a contact without
\* phone_numbers key, with a null phone_numbers, and two contacts of which
\* the first has two phone numbers
ContactShapes == {"absent", "null", "empty", "bare", "null_phones", "two"}

ContactsOf(id, shape) ==
    LET contact(n) == ("name" :> <<"n", n>> \o id) @@
                      ("email_address" :> <<"e", n>> \o id)
        phone(n)   == ("number" :> <<"5", n>>) @@
                      ("number_formatted" :> <<"p", n>> \o id)
    IN  CASE shape = "bare" -> <<contact("1")>>
          [] shape = "null_phones" ->
                 <<WithKey(contact("1"), "phone_numbers", "null", <<>>)>>
          [] shape = "two" ->
                 <<WithKey(contact("1"), "phone_numbers", "object",
                           Connection(<<phone("1"), phone("2")>>)),
                   WithKey(contact("2"), "phone_numbers", "object",
                           Connection(<<phone("3")>>))>>
          [] OTHER -> <<>>

\* The addresses of an account: no key, null, none, two
AddressShapes == {"absent", "null", "empty", "two"}

AddressesOf(id, shape) ==
    IF shape = "two"
    THEN << ("id" :> A1) @@ ("line1" :> <<"K">> \o id),
            ("id" :> <<"a", "2">>) @@ ("line1" :> <<"J">> \o id) >>
    ELSE <<>>

AccountShapes ==
    [histories : HistoryShapes, contacts : ContactShapes, addresses : AddressShapes]

\* The i-th account of a response, of a given shape
AccountOf(i, s) ==
    LET id == <<Digit[6 + i]>>
    IN  WithKey(
          WithKey(
            WithKey(("id" :> id),
                    "serviceable_address_account_assignment_histories",
                    s.histories.kind,
                    Connection([k \in 1..s.histories.n |-> HistoryOf(id, k)])),
            "contacts", KindOf(s.contacts), Connection(ContactsOf(id, s.contacts))),
          "addresses", KindOf(s.addresses), Connection(AddressesOf(id, s.addresses)))

\* The root key of each flattener
RootKey(p) == IF p = "flatten_inventory" THEN "inventory_items" ELSE "accounts"

\* A response around a list of entities: well formed, or without its data
\* key, root key or entities key, or with a null data
ResponseShapes == {"ok", "no_data", "no_root", "no_entities", "null_data"}

ResponseOf(root, shape, list) ==
    CASE shape = "ok"          -> ("data" :> Some((root :> Some(Connection(list)))))
      [] shape = "no_data"     -> <<>>
      [] shape = "no_root"     -> ("data" :> Some(<<>>))
      [] shape = "no_entities" -> ("data" :> Some((root :> Some(<<>>))))
      [] OTHER                 -> ("data" :> Null)

\* The shapes of the entities after the first: fully populated, every
\* optional key absent, and every optional key empty or null-filled
LaterItemShapes ==
    { [itemable |-> "account", aux |-> "object", field_data |-> "ip"],
      [itemable |-> "absent", aux |-> "absent", field_data |-> "absent"],
      [itemable |-> "null", aux |-> "null", field_data |-> "empty"] }

LaterAccountShapes ==
    { [histories |-> [kind |-> "object", n |-> MaxAccHist], contacts |-> "two",
       addresses |-> "two"],
      [histories |-> [kind |-> "absent", n |-> 0], contacts |-> "absent",
       addresses |-> "absent"],
      [histories |-> [kind |-> "object", n |-> 0], contacts |-> "empty",
       addresses |-> "empty"] }

\* Lists of at most n shapes: the first any shape, the others later shapes
ShapeLists(shapes, later, n) ==
    {<<>>} \cup UNION { { <<h>> \o t : h \in shapes, t \in [1..k -> later] } :
                          k \in 0..(n - 1) }

\* The responses of a flattener: the well-formed responses of at most
\* MaxInv items (MaxAcc accounts), and the malformed ones
Responses(p) ==
    { ResponseOf(RootKey(p), "ok", list) : list \in
        IF p = "flatten_inventory"
        THEN { [i \in 1..Len(s) |-> ItemOf(i, s[i])] :
                 s \in ShapeLists(ItemShapes, LaterItemShapes, MaxInv) }
        ELSE { [i \in 1..Len(s) |-> AccountOf(i, s[i])] :
                 s \in ShapeLists(AccountShapes, LaterAccountShapes, MaxAcc) } }
    \cup { ResponseOf(RootKey(p), shape, <<>>) : shape \in ResponseShapes \ {"ok"} }

InitFlatten ==
    /\ prog \in {"flatten_inventory", "flatten_accounts"}
    /\ pc = "start"
    /\ idx = 1
    /\ response \in Responses(prog)
    /\ flattened_data = <<>>
    /\ df = Null
    /\ result = Null
    /\ df_inventory = <<>>
    /\ df_accounts = [cols |-> {}, rows |-> <<>>]
    /\ servicable_df = <<>>
    /\ inactive_df = <<>>
    /\ uninstall_df = <<>>
    /\ account_to_inventories = <<>>
    /\ inventory_reasons = <<>>
    /\ final_rows = <<>>
    /\ df_final = NA
    /\ addresses = <<>>
    /\ filtered_addresses = <<>>
    /\ api = <<>>
    /\ queries = <<>>
    /\ merged = <<>>
    /\ uninstall_ids = {}
    /\ csv = Null

\* Lines 29-30 (39-40): the entity list is read from the response
FlattenStart ==
    /\ prog \in {"flatten_inventory", "flatten_accounts"} /\ pc = "start"
    /\ pc' = IF ResponseEntities(response, RootKey(prog)) = Null
             THEN "raised" ELSE "entities"
    /\ UNCHANGED <<prog, idx, flattenVars, combineVars, filterVars, mainVars>>

\* Lines 32-309 of flatten_inventory_items.py (42-165 of
\* flatten_accounts.py): one entity becomes one row
FlattenEntity ==
    /\ prog \in {"flatten_inventory", "flatten_accounts"} /\ pc = "entities"
    /\ idx <= Len(ResponseEntities(response, RootKey(prog))[1])
    /\ LET entity == ResponseEntities(response, RootKey(prog))[1][idx]
           row    == IF prog = "flatten_inventory"
                     THEN FlattenItem(entity) ELSE FlattenAccount(entity)
       IN  IF row = Null
           THEN pc' = "raised" /\ UNCHANGED <<idx, flattened_data>>
           ELSE /\ flattened_data' = Append(flattened_data, row[1])
                /\ idx' = idx + 1
                /\ UNCHANGED pc
    /\ UNCHANGED <<prog, response, df, combineVars, filterVars, mainVars>>

\* Lines 312-314 (168-170)
FlattenReturn ==
    /\ prog \in {"flatten_inventory", "flatten_accounts"} /\ pc = "entities"
    /\ idx > Len(ResponseEntities(response, RootKey(prog))[1])
    /\ df' = Some(DataFrame(flattened_data))
    /\ pc' = "done"
    /\ UNCHANGED <<prog, idx, response, flattened_data, combineVars, filterVars,
                   mainVars>>

NextFlatten ==
    \/ FlattenStart
    \/ FlattenEntity
    \/ FlattenReturn

SpecFlatten == InitFlatten /\ [][NextFlatten]_vars

----------------------------------------------------------------------------
(* What the candidates contribute, stated from the inputs alone *)

\* The comma-delimited pieces of a text: maximal comma-free stretches
Pieces(s) ==
    { SubSeq(s, i, j) : <<i, j>> \in
        { q \in (1..(Len(s) + 1)) \X (0..Len(s)) :
            /\ q[2] >= q[1] - 1
            /\ (q[1] = 1 \/ s[q[1] - 1] = ",")
            /\ (q[2] = Len(s) \/ s[q[2] + 1] = ",")
            /\ \A m \in q[1]..q[2] : s[m] # "," } }

\* A text with no blank at either end
Trimmed(k) == k = <<>> \/ (~IsSpace(k[1]) /\ ~IsSpace(k[Len(k)]))

\* k is p without its surrounding blanks
TrimOf(k, p) ==
    /\ Trimmed(k)
    /\ \E a, b \in 0..Len(p) :
          /\ a + Len(k) + b = Len(p)
          /\ \A m \in 1..a : IsSpace(p[m])
          /\ \A m \in 1..Len(k) : p[a + m] = k[m]
          /\ \A m \in 1..b : IsSpace(p[a + Len(k) + m])

\* The individual ids a serviceable-address candidate names
NamedIds(r) ==
    { k \in UNION { {SubSeq(p, a, b) : a \in 1..Len(p), b \in 1..Len(p)} :
                      p \in Pieces(r["inventory_ids"]) } :
        k # <<>> /\ \E p \in Pieces(r["inventory_ids"]) : TrimOf(k, p) }

\* Two id texts that are the same key once surrounding blanks are dropped
SameKey(a, b) ==
    /\ a # NA /\ b # NA
    /\ \E k \in {<<>>} \cup {SubSeq(a, i, j) : i \in 1..Len(a), j \in 1..Len(a)} :
          TrimOf(k, a) /\ TrimOf(k, b)

\* The inventory items of the account an id text names
ItemsOwnedBy(acct) ==
    { df_inventory[i]["InventoryItem_id"] : i \in
        { n \in 1..Len(df_inventory) : SameKey(acct, df_inventory[n]["Account_id"]) } }

\* The reasons each list contributes to inventory item k
FromServicable(k) ==
    { servicable_df[i]["reason"] : i \in
        { n \in 1..Len(servicable_df) : k \in NamedIds(servicable_df[n]) } }

FromInactive(k) ==
    { inactive_df[i]["reason"] : i \in
        { n \in 1..Len(inactive_df) : k \in ItemsOwnedBy(inactive_df[n]["account_id"]) } }

FromUninstall(k) ==
    { uninstall_df[i]["reason"] : i \in
        { n \in 1..Len(uninstall_df) :
            /\ uninstall_df[n]["entity_type"] = T_Account
            /\ k \in ItemsOwnedBy(uninstall_df[n]["entity_id"]) } }

Contributed(k) == FromServicable(k) \cup FromInactive(k) \cup FromUninstall(k)

\* Every id some candidate reaches
ReachedIds ==
    UNION { NamedIds(servicable_df[n]) : n \in 1..Len(servicable_df) }
    \cup { df_inventory[i]["InventoryItem_id"] : i \in
             { n \in 1..Len(df_inventory) :
                 Contributed(df_inventory[n]["InventoryItem_id"]) # {} } }

\* The reason tokens of a reason string
Tokens(reason) == Range(reason) \ {Delim}

\* The rows of the returned table with a given id
RowsOf(k) == { i \in 1..Len(df_final) : df_final[i]["InventoryItem_id"] = k }

CombineDone == prog = "combine" /\ pc = "done"

----------------------------------------------------------------------------
(* Claims about combine_removal_lists *)

\* C2: reason completeness.  When combine_removal_lists has returned, every
\* inventory item id reached by a candidate (named by a serviceable-address
\* candidate, or owned by the account of an inactive-account candidate or of
\* an Account-typed uninstall-job candidate) has a row in the output, and the
\* reason string of that row contains every reason those candidates
\* contribute to the id.
C2_ReasonCompleteness ==
    CombineDone =>
        \A k \in ReachedIds :
            \E i \in RowsOf(k) :
                Contributed(k) \subseteq Tokens(df_final[i]["Reason on List"])

\* C2 witness: an item of the inventory table has received a serviceable
\* reason and an account-resolved reason, and the table was returned.
C2_Witness ==
    /\ CombineDone
    /\ \E k \in ReachedIds :
          /\ FromServicable(k) # {}
          /\ FromInactive(k) \cup FromUninstall(k) # {}

\* C4: the reason string of every output row is the item's distinct reasons
\* in ascending code-point order, separated by " | "; no token occurs twice.
C4_ReasonStringSortedDistinct ==
    CombineDone =>
        \A i \in 1..Len(df_final) :
            LET s == df_final[i]["Reason on List"]
                odd == {n \in 1..Len(s) : n % 2 = 1}
            IN  /\ Len(s) % 2 = 1
                /\ \A n \in (1..Len(s)) \ odd : s[n] = Delim
                /\ \A n \in odd : s[n] # Delim
                /\ \A m, n \in odd : m < n => StrLess(s[m], s[n])
                /\ {s[n] : n \in odd} = Contributed(df_final[i]["InventoryItem_id"])

\* C4 witness: two different candidate rows contributed the same literal
\* reason to one inventory item, and the table was returned.
C4_Witness ==
    /\ CombineDone
    /\ \E k \in ReachedIds :
          \/ \E m, n \in 1..Len(uninstall_df) :
                /\ m # n
                /\ uninstall_df[m]["entity_type"] = T_Account
                /\ uninstall_df[n]["entity_type"] = T_Account
                /\ k \in ItemsOwnedBy(uninstall_df[m]["entity_id"])
                /\ k \in ItemsOwnedBy(uninstall_df[n]["entity_id"])
          \/ \E m, n \in 1..Len(servicable_df) :
                /\ m # n
                /\ servicable_df[m]["reason"] = servicable_df[n]["reason"]
                /\ k \in NamedIds(servicable_df[m])
                /\ k \in NamedIds(servicable_df[n])

\* The accounts-table rows whose Account_id is the given (normalised) id
AccountsRowsFor(acct_id) ==
    { i \in 1..Len(df_accounts.rows) : df_accounts.rows[i]["Account_id"] = acct_id }

\* The Account_name the accounts table holds for an id: missing when the
\* table has no such column
AccountsTableName(acct_id) ==
    LET i == CHOOSE n \in AccountsRowsFor(acct_id) :
                 \A m \in AccountsRowsFor(acct_id) : n <= m
    IN  Get(df_accounts.rows[i], "Account_name", NA)

\* The inventory row of an output row
InventoryRowOf(k) ==
    df_inventory[CHOOSE n \in 1..Len(df_inventory) :
                    /\ df_inventory[n]["InventoryItem_id"] = k
                    /\ \A m \in 1..(n - 1) : df_inventory[m]["InventoryItem_id"] # k]

InInventory(k) == \E n \in 1..Len(df_inventory) : df_inventory[n]["InventoryItem_id"] = k

\* C6 as stated: for an output row whose item has an account id,
\* Account_name is the accounts-table value whenever the accounts table has
\* a row with that id, and the inline name only when it has none.
C6_AccountsTableWinsWheneverRowExists ==
    CombineDone =>
        \A i \in 1..Len(df_final) :
            LET row == df_final[i]
            IN  (InInventory(row["InventoryItem_id"]) /\ row["Account_id"] # NA) =>
                    row["Account_name"] =
                        IF AccountsRowsFor(row["Account_id"]) # {}
                        THEN AccountsTableName(row["Account_id"])
                        ELSE InventoryRowOf(row["InventoryItem_id"])["Account_name"]

\* C6 amended: Account_name is the accounts-table value whenever the
\* accounts table has a row with that account id that carries a non-empty
\* Account_name; it is the inline name when the accounts table has no
\* matching row, no Account_name column, or a missing or empty name there.
C6_AccountsTableWinsWhenNamed ==
    CombineDone =>
        \A i \in 1..Len(df_final) :
            LET row == df_final[i]
            IN  (InInventory(row["InventoryItem_id"]) /\ row["Account_id"] # NA) =>
                    row["Account_name"] =
                        IF /\ AccountsRowsFor(row["Account_id"]) # {}
                           /\ AccountsTableName(row["Account_id"]) \notin {NA, <<>>}
                        THEN AccountsTableName(row["Account_id"])
                        ELSE InventoryRowOf(row["InventoryItem_id"])["Account_name"]

\* C6 witness: the two tables disagree on the name of the account of an
\* output row, and the row carries the accounts-table name.
C6_Witness ==
    /\ CombineDone
    /\ \E i \in 1..Len(df_final) :
          LET row == df_final[i]
          IN  /\ InInventory(row["InventoryItem_id"])
              /\ row["Account_id"] # NA
              /\ AccountsRowsFor(row["Account_id"]) # {}
              /\ AccountsTableName(row["Account_id"]) = <<"B">>
              /\ InventoryRowOf(row["InventoryItem_id"])["Account_name"] = <<"A">>
              /\ row["Account_name"] = <<"B">>

DetailColumns ==
    {"InventoryModel", "MAC", "IP", "Address_id", "Address_line1", "Account_id",
     "Account_name", "Account_status", "Account_email", "Account_phone", "end_date"}

\* C8: an id that has a reason but no row in the inventory table gets
\* exactly one output row, with the id and a non-empty reason string and
\* every inventory and account detail field missing.
C8_UnknownIdKeepsNullRow ==
    CombineDone =>
        \A k \in ReachedIds :
            ~InInventory(k) =>
                /\ Cardinality(RowsOf(k)) = 1
                /\ \A i \in RowsOf(k) :
                      /\ Tokens(df_final[i]["Reason on List"]) = Contributed(k)
                      /\ Contributed(k) # {}
                      /\ \A c \in DetailColumns : df_final[i][c] = NA

\* C8 witness: a serviceable candidate names an id the inventory table
\* lacks, next to an id the table has, and the table was returned.
C8_Witness ==
    /\ CombineDone
    /\ \E k \in ReachedIds : ~InInventory(k)
    /\ \E k \in ReachedIds : InInventory(k)

\* An inactive-account candidate whose account owns no inventory item
Unmapped(r) == ItemsOwnedBy(r["account_id"]) = {}

\* C9: processing an inactive-account candidate whose account maps to no
\* inventory item leaves every reason set as it was and moves on to the
\* next candidate; and no output row carries the inactive-account reason
\* unless a candidate's account owns the item.
C9_UnmappedInactiveSkipped ==
    /\ [][(prog = "combine" /\ pc = "inactive" /\ idx <= Len(inactive_df)
            /\ Unmapped(inactive_df[idx]))
           => (inventory_reasons' = inventory_reasons /\ pc' = "inactive"
               /\ idx' = idx + 1)]_vars
    /\ [](CombineDone =>
            \A i \in 1..Len(df_final) :
                R_Inactive \in Tokens(df_final[i]["Reason on List"]) =>
                    \E n \in 1..Len(inactive_df) :
                        df_final[i]["InventoryItem_id"]
                            \in ItemsOwnedBy(inactive_df[n]["account_id"]))

\* C9 witness: an unmapped inactive candidate was processed before another
\* inactive candidate, and the run returned a table with rows.
C9_Witness ==
    /\ CombineDone
    /\ Len(df_final) > 0
    /\ \E n \in 1..Len(inactive_df) :
          /\ Unmapped(inactive_df[n])
          /\ n < Len(inactive_df)

----------------------------------------------------------------------------
(* Claims about filterServicableAddressesWithoutActiveAccounts *)

\* The account status name of a history entry, missing when there is none
StatusName(h) ==
    IF h.account = Null THEN NA
    ELSE IF h.account[1].account_status = Null THEN NA
    ELSE h.account[1].account_status[1].name

\* The reason the precedence rules give an address, or "skip"
ExpectedReason(address) ==
    LET hs == address.histories
    IN  IF Len(hs) = 0 THEN R_NullHistories
        ELSE IF \E i \in 1..Len(hs) : hs[i].account = Null THEN R_AnyMissing
        ELSE IF \E i \in 1..Len(hs) : StatusName(hs[i]) # T_Active THEN R_HasInactive
        ELSE "skip"

\* The entries built for the n-th address
EntriesOf(n) ==
    { i \in 1..Len(filtered_addresses) : filtered_addresses[i].id = addresses[n].id }

\* The n-th address has the entry of the first rule that matches it, or
\* none when no rule matches
ClassifiedByPrecedence(n) ==
    /\ Cardinality(EntriesOf(n)) <= 1
    /\ ExpectedReason(addresses[n]) = "skip" => EntriesOf(n) = {}
    /\ ExpectedReason(addresses[n]) # "skip" =>
          \E i \in EntriesOf(n) :
              filtered_addresses[i].reason = ExpectedReason(addresses[n])

\* The precedence holds for every address the filter has gone through,
\* and every entry belongs to such an address
PrecedenceWhereProcessed ==
    prog = "filter" =>
        /\ \A n \in 1..Len(addresses) : n < idx => ClassifiedByPrecedence(n)
        /\ \A i \in 1..Len(filtered_addresses) :
              \E n \in 1..Len(addresses) : n < idx /\ i \in EntriesOf(n)

FilterEnded == prog = "filter" /\ pc \in {"done", "raised"}

\* C7: first-match precedence per address.  When the filter has ended,
\* every address of the response has one entry carrying the reason of the
\* first rule that matches it (no histories, a history without account, a
\* history whose status name is not "Active"), or no entry when no rule
\* matches; no address has two entries.
C7_FirstMatchPrecedence ==
    FilterEnded => \A n \in 1..Len(addresses) : ClassifiedByPrecedence(n)

----------------------------------------------------------------------------
(* Claims about the report of both programs *)

MainWritten == prog = "main" /\ pc = "done" /\ csv # Null

\* The rows of the written report with a given id
CsvRowsOf(k) ==
    { i \in 1..Len(csv[1].rows) : csv[1].rows[i]["InventoryItem_id"] = k }

\* C1: uniqueness.  The table combine_removal_lists returns and the table
\* main writes hold no two rows with the same InventoryItem_id, and every
\* inventory item id that has a reason is in exactly one row.
C1_UniqueInventoryItemId ==
    /\ CombineDone =>
          /\ \A i, j \in 1..Len(df_final) :
                df_final[i]["InventoryItem_id"] = df_final[j]["InventoryItem_id"]
                    => i = j
          /\ \A k \in ReachedIds : Cardinality(RowsOf(k)) = 1
    /\ MainWritten =>
          /\ \A i, j \in 1..Len(csv[1].rows) :
                csv[1].rows[i]["InventoryItem_id"] = csv[1].rows[j]["InventoryItem_id"]
                    => i = j
          /\ \A i \in 1..Len(merged) :
                notna(merged[i]["reason"]) =>
                    Cardinality(CsvRowsOf(merged[i]["InventoryItem_id"])) = 1

\* C1 witness: the merge gave one inventory item two rows (two accounts at
\* its address), both with a reason, and the report was written.
C1_Witness ==
    /\ MainWritten
    /\ \E i, j \in 1..Len(merged) :
          /\ i # j
          /\ merged[i]["InventoryItem_id"] = merged[j]["InventoryItem_id"]
          /\ notna(merged[i]["reason"])
          /\ notna(merged[j]["reason"])

\* C3: every row of the report has a non-empty reason, and an inventory
\* item for which no reason was resolved has no row: in the table
\* combine_removal_lists returns every row's id was reached by a candidate,
\* and in the table main writes no row belongs to an item whose reason is
\* None.
C3_EveryRowHasReason ==
    /\ CombineDone =>
          \A i \in 1..Len(df_final) :
              /\ df_final[i]["Reason on List"] \notin {NA, <<>>}
              /\ Contributed(df_final[i]["InventoryItem_id"]) # {}
    /\ MainWritten =>
          /\ \A i \in 1..Len(csv[1].rows) :
                csv[1].rows[i]["Reason"] \notin {NA, <<>>}
          /\ \A i \in 1..Len(merged) :
                isna(merged[i]["reason"]) =>
                    CsvRowsOf(merged[i]["InventoryItem_id"]) = {}

\* C3 witness: main wrote a report that keeps one inventory item and leaves
\* out another one, whose account is active and has no uninstall job.
C3_Witness ==
    /\ MainWritten
    /\ csv[1].rows # <<>>
    /\ \E i \in 1..Len(merged) : isna(merged[i]["reason"])

\* The rows of combine_removal_lists with the uninstall reason belong to
\* items of an account that an Account-typed candidate names
CombineOnlyAccountJobs ==
    CombineDone =>
        \A i \in 1..Len(df_final) :
            R_Uninstall \in Tokens(df_final[i]["Reason on List"]) =>
                FromUninstall(df_final[i]["InventoryItem_id"]) # {}

\* The same for the rows main writes
MainOnlyAccountJobs ==
    MainWritten =>
        \A i \in 1..Len(csv[1].rows) :
            M_Uninstall \in Range(csv[1].rows[i]["Reason"]) =>
                \E n \in 1..Len(uninstall_df) :
                    /\ uninstall_df[n]["entity_type"] = T_Account
                    /\ ToNumeric(uninstall_df[n]["entity_id"])
                          = csv[1].rows[i]["Account_id"]

\* C5: an uninstall-job candidate whose entity_type is not an Account
\* produces no reason on any row: a row carries the uninstall reason only
\* if an Account-typed uninstall-job candidate names the account of its
\* inventory item.
C5_OnlyAccountJobsContribute == CombineOnlyAccountJobs /\ MainOnlyAccountJobs

----------------------------------------------------------------------------
(* Claims about the flatteners *)

FlattenEnded(p) == prog = p /\ pc \in {"done", "raised"}
FlattenDone(p)  == prog = p /\ pc = "done"

\* The response has its data key, its root key and its entities key
WellFormed ==
    /\ "data" \in DOMAIN response
    /\ response["data"] # Null
    /\ RootKey(prog) \in DOMAIN response["data"][1]
    /\ response["data"][1][RootKey(prog)] # Null
    /\ "entities" \in DOMAIN response["data"][1][RootKey(prog)][1]

\* The entities of a well-formed response
InputEntities == response["data"][1][RootKey(prog)][1]["entities"]

\* A key of an object that is absent or null
Missing(obj, key) == key \notin DOMAIN obj \/ obj[key] = Null

\* Every optional nested object of an inventory item is absent or null
AllOptionalMissing(item) ==
    \A key \in {"inventoryitemable", "deployment_type", "inventory_model",
                "inventory_model_field_data"} : Missing(item, key)

\* The same with every optional nested object absent
AllOptionalAbsent(item) ==
    \A key \in {"inventoryitemable", "deployment_type", "inventory_model",
                "inventory_model_field_data"} : key \notin DOMAIN item

\* The full column set of the inventory table
InventoryColumns ==
    UNION { DOMAIN InventoryFields[g] : g \in DOMAIN InventoryFields }

\* The Address-, Account-, FieldData- and IPAssignment-prefixed columns
OptionalColumns ==
    DOMAIN InventoryFields.address \cup DOMAIN InventoryFields.account
    \cup DOMAIN InventoryFields.field_data
    \cup DOMAIN InventoryFields.inventory_model_field
    \cup DOMAIN InventoryFields.ip_assignment

\* The i-th item was flattened to a row with the full column set and null
\* optional fields
NullRowBuilt(i) ==
    /\ Len(flattened_data) >= i
    /\ DOMAIN flattened_data[i] = InventoryColumns
    /\ \A c \in OptionalColumns : flattened_data[i][c] = NA

\* C11: null-safety of flatten_inventory_items_response.  When the
\* flattener has ended, every item reached whose optional nested objects
\* are all absent or null has a row with the full column set and null
\* Address, Account, FieldData and IPAssignment fields; no exception was
\* raised on it.
C11_NullSafeFlattening ==
    (FlattenEnded("flatten_inventory") /\ WellFormed) =>
        \A i \in 1..Len(InputEntities) :
            (AllOptionalMissing(InputEntities[i]) /\ Len(flattened_data) >= i - 1)
                => NullRowBuilt(i)

\* The same holds of the items whose optional nested objects are absent
NullSafeWhenAbsent ==
    (FlattenEnded("flatten_inventory") /\ WellFormed) =>
        \A i \in 1..Len(InputEntities) :
            (AllOptionalAbsent(InputEntities[i]) /\ Len(flattened_data) >= i - 1)
                => NullRowBuilt(i)

\* C12: fixed schema.  In the table either flattener returns, every row
\* has the same set of columns, and so has every row dict the table was
\* built from, whichever optional branches were populated.
C12_FixedSchema ==
    (FlattenDone("flatten_inventory") \/ FlattenDone("flatten_accounts")) =>
        /\ \A i, j \in 1..Len(flattened_data) :
              DOMAIN flattened_data[i] = DOMAIN flattened_data[j]
        /\ \A i \in 1..Len(df[1].rows) :
              /\ DOMAIN df[1].rows[i] = df[1].cols
              /\ DOMAIN df[1].rows[i] = DOMAIN flattened_data[i]
              /\ df[1].rows[i] = flattened_data[i]

\* C12 witness: a returned inventory table with a row whose address,
\* account, field datum and IP assignment are populated and a row where
\* none is.
C12_Witness ==
    /\ FlattenDone("flatten_inventory")
    /\ \E i, j \in 1..Len(df[1].rows) :
          /\ \A c \in {"Address_id", "Account_id", "FieldData_value", "IPAssignment_subnet"} :
                df[1].rows[i][c] # NA
          /\ \A c \in {"Address_id", "Account_id", "FieldData_value", "IPAssignment_subnet"} :
                df[1].rows[j][c] = NA

\* The response lacks its data key, its root key or its entities key
LacksKey ==
    \/ "data" \notin DOMAIN response
    \/ /\ response["data"] # Null
       /\ \/ RootKey(prog) \notin DOMAIN response["data"][1]
          \/ /\ response["data"][1][RootKey(prog)] # Null
             /\ "entities" \notin DOMAIN response["data"][1][RootKey(prog)][1]

\* C13: fail fast on malformed input.  When a flattener has ended on a
\* response without its data key, root key or entities key, it has raised
\* and returned no table.
C13_MalformedInputFailsFast ==
    \A p \in {"flatten_inventory", "flatten_accounts"} :
        (FlattenEnded(p) /\ LacksKey) => (pc = "raised" /\ df = Null)

\* The histories of an account in API order (none when the key is absent)
HistoriesOf(account) ==
    IF "serviceable_address_account_assignment_histories" \in DOMAIN account
    THEN account["serviceable_address_account_assignment_histories"][1]["entities"]
    ELSE <<>>

-----------------------------------------------------------------------------
(* Claims about the reconciliation preconditions *)

InventoryJoinColumns == {"Account_id", "InventoryItem_id", "Address_id"}
AccountsJoinColumns == {"Account_id", "Address_id"}

\* A base table lacks one of its join columns
MissingJoinColumn ==
    \/ ~(InventoryJoinColumns \subseteq Cols(df_inventory))
    \/ ~(AccountsJoinColumns \subseteq df_accounts.cols)

\* Both base tables are in hand: main has fetched them
TablesInHand ==
    \/ prog = "combine"
    \/ prog = "main" /\ pc \notin {"fetch_inventory", "fetch_accounts", "returned"}

\* C15: when a base table lacks Account_id, InventoryItem_id or Address_id,
\* reconciliation stops with an error before any merge or lookup: no index,
\* no reason map, no merged table, and no report returned or written (the
\* run is at its first step or has raised).
C15_MissingJoinColumnIsFatal ==
    (TablesInHand /\ MissingJoinColumn) =>
        /\ pc \in {"start", "merge", "raised"}
        /\ account_to_inventories = <<>>
        /\ inventory_reasons = <<>>
        /\ merged = <<>>
        /\ csv = Null

-----------------------------------------------------------------------------
(* Claims about the fetches of main *)

\* What a query of the run gave
OutcomeOf(q) ==
    CASE q = "query_getInventoryItems" -> api.inventory
      [] q = "query_getAccounts"       -> api.accounts
      [] q = "query_uninstallJobs"     -> api.jobs

\* A query sent by this run has failed
FetchFailed ==
    prog = "main" /\ \E i \in 1..Len(queries) : OutcomeOf(queries[i]) = Null

\* The run has stopped short of the report
MainAborted == prog = "main" /\ pc \in {"returned", "raised"}

\* C16: no partial report.  Once a query of the run has failed the run has
\* ended with removal_list_filtered.csv unwritten, and no later step writes
\* it or sends another query; the file is written only after the three
\* queries were sent and each succeeded; and after a failed inventory query
\* the inventory query is the only one sent.
C16_NoPartialReport ==
    /\ [](FetchFailed => MainAborted /\ csv = Null)
    /\ [][FetchFailed => csv' = Null /\ queries' = queries]_vars
    /\ [](MainWritten =>
            /\ queries = <<"query_getInventoryItems", "query_getAccounts",
                           "query_uninstallJobs">>
            /\ ~FetchFailed)
    /\ []((prog = "main" /\ queries # <<>> /\ api.inventory = Null) =>
            queries = <<"query_getInventoryItems">>)

\* C16 witness: the inventory and accounts queries succeeded with rows that
\* would be reported, the job query failed, and the run ended with no file.
C16_Witness ==
    /\ MainAborted
    /\ Len(queries) = 3
    /\ api.jobs = Null
    /\ merged # <<>>
    /\ csv = Null

-----------------------------------------------------------------------------
(* Claims about the join keys of combine_removal_lists *)

\* The canonical string of a key: its text, trimmed
KeyText(v) == Strip(Str(v))

\* A key that stands for no value
NoKey(v) == isna(v) \/ KeyText(v) = <<>>

\* Inventory item ids: an output row whose id is, as a canonical string, the
\* id of an inventory row carries the details of that row
ItemKeysMatch ==
    \A i \in 1..Len(df_final) : \A n \in 1..Len(df_inventory) :
        KeyText(df_final[i]["InventoryItem_id"])
                = KeyText(df_inventory[n]["InventoryItem_id"])
            => df_final[i]["MAC"] = df_inventory[n]["FieldData_value"]

\* Account ids: the reason of an inactive-account candidate reaches every
\* item whose account id is, as a canonical string, the candidate's
AccountKeysMatch ==
    \A c \in 1..Len(inactive_df) : \A n \in 1..Len(df_inventory) :
        (/\ ~NoKey(inactive_df[c]["account_id"])
         /\ ~NoKey(df_inventory[n]["Account_id"])
         /\ KeyText(inactive_df[c]["account_id"])
                = KeyText(df_inventory[n]["Account_id"]))
            => \E i \in 1..Len(df_final) :
                  /\ KeyText(df_final[i]["InventoryItem_id"])
                        = KeyText(df_inventory[n]["InventoryItem_id"])
                  /\ inactive_df[c]["reason"] \in Tokens(df_final[i]["Reason on List"])

\* A missing or empty key matches nothing: candidates without an account
\* key give their reason to no row
NoKeyMatchesNothing ==
    (\A c \in 1..Len(inactive_df) : NoKey(inactive_df[c]["account_id"]))
        => \A i \in 1..Len(df_final) :
              R_Inactive \notin Tokens(df_final[i]["Reason on List"])

\* C17: join keys are compared as trimmed canonical strings.  In the table
\* combine_removal_lists returns, keys that differ only by number-or-text
\* representation or by surrounding blanks have matched, for inventory item
\* ids and for account ids, and a missing or empty key has matched nothing.
C17_JoinKeysNormalized ==
    CombineDone => ItemKeysMatch /\ AccountKeysMatch /\ NoKeyMatchesNothing

\* The part of C17 that the code implements: account ids
AccountKeysNormalized == CombineDone => AccountKeysMatch

-----------------------------------------------------------------------------
(* Claims about build_reason *)

\* The reason column has been computed
ReasonsBuilt == prog = "main" /\ pc \in {"drop_duplicates", "write_csv", "done"}

\* The three rules, in rule order
RuleOrder == <<M_NoAccount, M_Inactive, M_Uninstall>>

RuleApplies(row, rule) ==
    CASE rule = M_NoAccount -> row["Account_id_inv"] = NA
      [] rule = M_Inactive  -> /\ row["Account_account_status_id"] # NA
                               /\ row["Account_account_status_id"] # <<"#", "1">>
                               /\ row["Account_account_status_id"] # <<"#", "1", "1">>
      [] rule = M_Uninstall -> /\ row["Account_id_inv"] # NA
                               /\ row["Account_id_inv"] \in uninstall_ids

\* The position of a token in a reason, 0 when it is not there
PositionIn(reason, token) ==
    IF \E p \in 1..Len(reason) : reason[p] = token
    THEN CHOOSE p \in 1..Len(reason) : reason[p] = token
    ELSE 0

\* C18: in every row of the merged table, each of the three reasons is
\* present exactly when its rule applies to the row, the reason is None
\* exactly when no rule applies, and otherwise the reasons present stand in
\* rule order, each once, separated by "; ".
C18_ReasonsByRule ==
    ReasonsBuilt =>
        \A i \in 1..Len(merged) :
            LET row    == merged[i]
                reason == row["reason"]
            IN  /\ \A r \in 1..3 :
                      (PositionIn(reason, RuleOrder[r]) # 0) <=> RuleApplies(row, RuleOrder[r])
                /\ (reason = NA) <=> (\A r \in 1..3 : ~RuleApplies(row, RuleOrder[r]))
                /\ reason # NA =>
                      /\ Len(reason) % 2 = 1
                      /\ \A p \in 1..Len(reason) :
                            IF p % 2 = 0 THEN reason[p] = M_Delim
                            ELSE \E r \in 1..3 : reason[p] = RuleOrder[r]
                      /\ \A r, q \in 1..3 :
                            (/\ r < q
                             /\ PositionIn(reason, RuleOrder[r]) # 0
                             /\ PositionIn(reason, RuleOrder[q]) # 0)
                                => PositionIn(reason, RuleOrder[r]) < PositionIn(reason, RuleOrder[q])
                      /\ \A p, q \in 1..Len(reason) :
                            (p # q /\ p % 2 = 1 /\ q % 2 = 1) => reason[p] # reason[q]

\* C18 witness: the merged table holds a row without account and a row of
\* an inactive account that has an uninstall job.
C18_Witness ==
    /\ ReasonsBuilt
    /\ \E i \in 1..Len(merged) :
          merged[i]["reason"] = <<M_Inactive, M_Delim, M_Uninstall>>
    /\ \E i \in 1..Len(merged) : merged[i]["reason"] = <<M_NoAccount>>

-----------------------------------------------------------------------------
(* Claims about the columns of the report *)

\* C19: the report main writes has the 14 columns of the claim as its
\* header, in this order, and every row has a value (possibly null) in
\* exactly these columns.
C19_ReportColumns ==
    MainWritten =>
        /\ csv[1].cols =
              <<"InventoryItem_id", "InventoryModel", "MAC", "IP", "Address_id",
                "Address_line1", "Address_line2", "Reason", "Account_id",
                "Account_name", "Account_status", "Account_email",
                "Account_phone", "end_date">>
        /\ \A i \in 1..Len(csv[1].rows) :
              /\ DOMAIN csv[1].rows[i] = {csv[1].cols[c] : c \in 1..14}
              /\ Cardinality(DOMAIN csv[1].rows[i]) = 14

\* C19 witness: a written report with a row whose account fields are all
\* null and a row whose account fields are filled.
C19_Witness ==
    /\ MainWritten
    /\ \E i \in 1..Len(csv[1].rows) :
          \A c \in {"Account_id", "Account_name", "Account_status", "Account_email"} :
              csv[1].rows[i][c] = NA
    /\ \E i \in 1..Len(csv[1].rows) :
          \A c \in {"Account_id", "Account_name", "Account_status", "Account_email"} :
              csv[1].rows[i][c] # NA

-----------------------------------------------------------------------------
(* Claims about the account-to-inventory index *)

\* The index has been built
IndexBuilt == prog = "combine" /\ pc \notin {"start", "raised"}

\* The ids listed under a key of the index
ListedUnder(key) ==
    {account_to_inventories[key][p] : p \in 1..Len(account_to_inventories[key])}

\* Every row with an account id is listed under that id, normalized, and
\* under no other key, and every key lists only such rows
IndexExact ==
    /\ \A n \in 1..Len(df_inventory) :
          ~NoKey(df_inventory[n]["Account_id"]) =>
              \A key \in DOMAIN account_to_inventories :
                  (df_inventory[n]["InventoryItem_id"] \in ListedUnder(key))
                      <=> (key = KeyText(df_inventory[n]["Account_id"]))
    /\ \A n \in 1..Len(df_inventory) :
          ~NoKey(df_inventory[n]["Account_id"]) =>
              KeyText(df_inventory[n]["Account_id"]) \in DOMAIN account_to_inventories
    /\ \A key \in DOMAIN account_to_inventories :
          \A p \in 1..Len(account_to_inventories[key]) :
              \E n \in 1..Len(df_inventory) :
                  /\ df_inventory[n]["InventoryItem_id"] = account_to_inventories[key][p]
                  /\ df_inventory[n]["Account_id"] # NA
                  /\ KeyText(df_inventory[n]["Account_id"]) = key

\* Rows without an account, missing or empty, have no key and no entry
NoAccountNoEntry ==
    /\ \A key \in DOMAIN account_to_inventories : ~NoKey(key)
    /\ \A n \in 1..Len(df_inventory) :
          NoKey(df_inventory[n]["Account_id"]) =>
              \A key \in DOMAIN account_to_inventories :
                  df_inventory[n]["InventoryItem_id"] \notin ListedUnder(key)

\* C20: once built, the index maps each account id to exactly the ids of
\* the inventory rows that carry this account id after normalization, and
\* the rows whose account id is missing or empty add no key and no entry.
C20_IndexExactAndTotal ==
    IndexBuilt => IndexExact /\ NoAccountNoEntry

\* The part of C20 about the rows that have an account
IndexExactWhereBuilt == IndexBuilt => IndexExact

-----------------------------------------------------------------------------
(* Claims about the first contact and the first field datum *)

\* The entities under a connection key of an object that was flattened
\* without error: none when the key is absent
ListUnder(obj, key) == IF key \in DOMAIN obj THEN obj[key][1]["entities"] ELSE <<>>

\* The value of a key of an object, missing when the key is absent
ValueOf(obj, key) == IF key \in DOMAIN obj THEN obj[key] ELSE NA

\* C21: in every row of the returned accounts table the Contact_ fields are
\* those of the account's first contact and the PhoneNumber_ fields those
\* of that contact's first phone number; the seven fields are null when the
\* account has no contact, and the three PhoneNumber_ fields are null when
\* the first contact has no phone number.
C21_FirstContactFirstPhone ==
    FlattenDone("flatten_accounts") /\ WellFormed =>
        \A i \in 1..Len(InputEntities) :
            LET row      == df[1].rows[i]
                contacts == ListUnder(InputEntities[i], "contacts")
                phones   == ListUnder(contacts[1], "phone_numbers")
            IN  IF contacts = <<>>
                THEN \A c \in {"Contact_name", "Contact_role", "Contact_primary",
                               "Contact_email_address", "PhoneNumber_country",
                               "PhoneNumber_number", "PhoneNumber_number_formatted"} :
                        row[c] = NA
                ELSE /\ row["Contact_name"] = ValueOf(contacts[1], "name")
                     /\ row["Contact_role"] = ValueOf(contacts[1], "role")
                     /\ row["Contact_primary"] = ValueOf(contacts[1], "primary")
                     /\ row["Contact_email_address"] = ValueOf(contacts[1], "email_address")
                     /\ IF phones = <<>>
                        THEN /\ row["PhoneNumber_country"] = NA
                             /\ row["PhoneNumber_number"] = NA
                             /\ row["PhoneNumber_number_formatted"] = NA
                        ELSE /\ row["PhoneNumber_country"] = ValueOf(phones[1], "country")
                             /\ row["PhoneNumber_number"] = ValueOf(phones[1], "number")
                             /\ row["PhoneNumber_number_formatted"]
                                    = ValueOf(phones[1], "number_formatted")

\* C21 witness: the returned table holds an account with two contacts whose
\* first contact has two phone numbers, and an account whose only contact
\* has no phone number.
C21_Witness ==
    /\ FlattenDone("flatten_accounts") /\ WellFormed
    /\ \E i \in 1..Len(InputEntities) :
          /\ Len(ListUnder(InputEntities[i], "contacts")) = 2
          /\ Len(ListUnder(ListUnder(InputEntities[i], "contacts")[1], "phone_numbers")) = 2
    /\ \E i \in 1..Len(InputEntities) :
          /\ Len(ListUnder(InputEntities[i], "contacts")) = 1
          /\ ListUnder(ListUnder(InputEntities[i], "contacts")[1], "phone_numbers") = <<>>

\* The FieldData_ columns and the IPAssignment_ columns
FieldDataColumns ==
    DOMAIN InventoryFields.field_data \cup DOMAIN InventoryFields.inventory_model_field

IPAssignmentColumns == DOMAIN InventoryFields.ip_assignment

\* The subnets of the IP assignments of the field data after the first
LaterSubnets(data) ==
    UNION { { ListUnder(data[n], "ip_assignments")[p]["subnet"] :
                p \in 1..Len(ListUnder(data[n], "ip_assignments")) } :
            n \in 2..Len(data) }

\* C22: in every row of the returned inventory table FieldData_value is the
\* value of the item's first field datum and IPAssignment_subnet the subnet
\* of the first IP assignment of that first datum (null when it has none),
\* never a subnet of a later datum; all FieldData_ and IPAssignment_ fields
\* are null when the item has no field datum.
C22_FirstFieldDatumFirstIP ==
    FlattenDone("flatten_inventory") /\ WellFormed =>
        \A i \in 1..Len(InputEntities) :
            LET row  == df[1].rows[i]
                data == ListUnder(InputEntities[i], "inventory_model_field_data")
                ips  == ListUnder(data[1], "ip_assignments")
            IN  IF data = <<>>
                THEN \A c \in FieldDataColumns \cup IPAssignmentColumns : row[c] = NA
                ELSE /\ row["FieldData_value"] = ValueOf(data[1], "value")
                     /\ row["FieldData_id"] = ValueOf(data[1], "id")
                     /\ row["IPAssignment_subnet"] =
                            IF ips = <<>> THEN NA ELSE ValueOf(ips[1], "subnet")
                     /\ row["IPAssignment_id"] =
                            IF ips = <<>> THEN NA ELSE ValueOf(ips[1], "id")
                     /\ row["IPAssignment_subnet"] \notin LaterSubnets(data)

\* C22 witness: the returned table holds an item whose first field datum has
\* no IP assignment while its second has one, an item whose first field
\* datum has two IP assignments, and so a row with a subnet and one without.
C22_Witness ==
    /\ FlattenDone("flatten_inventory") /\ WellFormed
    /\ \E i \in 1..Len(InputEntities) :
          LET data == ListUnder(InputEntities[i], "inventory_model_field_data")
          IN  /\ Len(data) = 2
              /\ ListUnder(data[1], "ip_assignments") = <<>>
              /\ LaterSubnets(data) # {}
    /\ \E i \in 1..Len(InputEntities) :
          LET data == ListUnder(InputEntities[i], "inventory_model_field_data")
          IN  /\ data # <<>>
              /\ Len(ListUnder(data[1], "ip_assignments")) = 2

-----------------------------------------------------------------------------
(* Claims about build_api_request_and_execute *)

\* The call has returned (it has not raised)
ExecReturned == prog = "execute" /\ pc = "done"

\* C23: a returned call gives the parsed body exactly when a request was
\* sent and answered with status 200 and a body without an errors key, and
\* then the whole body; it gives None for any other status and for a body
\* with an errors key; called with neither query nor payload it gives None
\* and no request was sent, whatever the endpoint would have answered.
C23_ResultOnlyOnCleanSuccess ==
    /\ ExecReturned =>
          /\ result # Null =>
                /\ Len(queries) = 1
                /\ response.status_code = 200
                /\ "errors" \notin DOMAIN response.json[1]
                /\ result = response.json
          /\ (queries # <<>> /\ response.status_code # 200) => result = Null
          /\ (queries # <<>> /\ response.status_code = 200
                /\ "errors" \in DOMAIN response.json[1]) => result = Null
          /\ (api.query = Null /\ api.payload = Null) =>
                (result = Null /\ queries = <<>>)
    /\ (prog = "execute" /\ api.query = Null /\ api.payload = Null) =>
          (queries = <<>> /\ pc \in {"start", "done"})

\* C23 witness: a call returned None on a 200 response that carries data
\* together with an errors key.
C23_Witness ==
    /\ ExecReturned
    /\ queries # <<>>
    /\ response.status_code = 200
    /\ {"data", "errors"} \subseteq DOMAIN response.json[1]
    /\ result = Null

-----------------------------------------------------------------------------
(* Claims about the steps of combine_removal_lists *)

\* A step keeps every entry of the reason map at its place and takes no
\* reason away
ReasonsOnlyGrow ==
    /\ Len(inventory_reasons') >= Len(inventory_reasons)
    /\ \A i \in 1..Len(inventory_reasons) :
          /\ inventory_reasons'[i].iid = inventory_reasons[i].iid
          /\ inventory_reasons[i].reasons \subseteq inventory_reasons'[i].reasons

\* A step adds at most one row to the final rows and changes no row; it
\* adds one only when the three candidate loops are over, for the next
\* entry of the reason map, which no longer changes
RowsOnlyAppended ==
    /\ Len(final_rows') \in {Len(final_rows), Len(final_rows) + 1}
    /\ \A i \in 1..Len(final_rows) : final_rows'[i] = final_rows[i]
    /\ Len(final_rows') = Len(final_rows) + 1 =>
          /\ pc = "assemble"
          /\ inventory_reasons' = inventory_reasons
          /\ final_rows'[Len(final_rows')]["InventoryItem_id"]
                = inventory_reasons[Len(final_rows')].iid
    /\ final_rows # <<>> => inventory_reasons' = inventory_reasons

\* C24: in combine_removal_lists every step only adds to the reason sets;
\* rows are assembled one per entry of the reason map, only in the assembly
\* loop that follows the three candidate loops, and a row once added is
\* never changed; the table returned is these rows, one for each entry.
C24_ReasonsGrowRowsOnce ==
    /\ [][prog = "combine" => ReasonsOnlyGrow /\ RowsOnlyAppended]_vars
    /\ []((prog = "combine" /\ final_rows # <<>>) => pc \in {"assemble", "done"})
    /\ [](CombineDone =>
            /\ Len(final_rows) = Len(inventory_reasons)
            /\ Len(df_final) = Len(final_rows)
            /\ \A i \in 1..Len(final_rows) :
                  /\ df_final[i] = final_rows[i]
                  /\ final_rows[i]["InventoryItem_id"] = inventory_reasons[i].iid
            /\ \A i, j \in 1..Len(inventory_reasons) :
                  inventory_reasons[i].iid = inventory_reasons[j].iid => i = j)

\* C24 witness: the returned table has two rows, and an item holds two
\* reasons, added by candidates of different lists.
C24_Witness ==
    /\ CombineDone
    /\ Len(final_rows) = 2
    /\ \E i \in 1..Len(inventory_reasons) :
          Cardinality(inventory_reasons[i].reasons) = 2

-----------------------------------------------------------------------------
(* Claims about the order of the candidates *)

\* The rows of a list in every order
Reorderings(s) ==
    { [i \in 1..Len(s) |-> s[p[i]]] :
        p \in { q \in [1..Len(s) -> 1..Len(s)] :
                  \A i, j \in 1..Len(s) : q[i] = q[j] => i = j } }

\* The three candidate loops (lines 906-941) run over given lists
RECURSIVE ServicableLoop(_, _)
ServicableLoop(d, rows) ==
    IF rows = <<>> THEN d
    ELSE ServicableLoop(
             AddReasonAll(d, expand_servicable_row_to_ids(Head(rows)),
                          Get(Head(rows), "reason", R_Servicable)),
             Tail(rows))

RECURSIVE InactiveLoop(_, _, _)
InactiveLoop(d, rows, index) ==
    IF rows = <<>> THEN d
    ELSE InactiveLoop(InactiveReasons(d, Head(rows), index), Tail(rows), index)

RECURSIVE UninstallLoop(_, _, _)
UninstallLoop(d, rows, index) ==
    IF rows = <<>> THEN d
    ELSE UninstallLoop(UninstallReasons(d, Head(rows), index), Tail(rows), index)

\* The item ids of a run over the given lists, each with its reason string
Reconciled(serv, inact, uninst) ==
    LET index == BuildAccountIndex(NormalizeColumn(df_inventory, "Account_id"))
        d     == UninstallLoop(
                     InactiveLoop(ServicableLoop(<<>>, serv), inact, index),
                     uninst, index)
    IN  { <<d[i].iid, ReasonString(d[i].reasons)>> : i \in 1..Len(d) }

\* The item ids of the returned table, each with its reason string
Returned ==
    { <<df_final[i]["InventoryItem_id"], df_final[i]["Reason on List"]>> :
        i \in 1..Len(df_final) }

\* C25: the item ids combine_removal_lists returns, each with its reason
\* string, are those of a run over the same tables with the rows of the
\* three candidate lists in any order, the given order (a second run)
\* included; and no id is returned twice.
C25_OrderIndependent ==
    CombineDone =>
        /\ \A s \in Reorderings(servicable_df), a \in Reorderings(inactive_df),
              u \in Reorderings(uninstall_df) :
              Reconciled(s, a, u) = Returned
        /\ Cardinality(Returned) = Len(df_final)

\* C25 witness: two serviceable candidates with different reasons name the
\* same item, which is returned with both reasons.
C25_Witness ==
    /\ CombineDone
    /\ Len(servicable_df) = 2
    /\ servicable_df[1]["reason"] # servicable_df[2]["reason"]
    /\ \E k \in Range(expand_servicable_row_to_ids(servicable_df[1]))
              \cap Range(expand_servicable_row_to_ids(servicable_df[2])) :
          \E i \in 1..Len(df_final) :
              /\ df_final[i]["InventoryItem_id"] = k
              /\ Cardinality(Tokens(df_final[i]["Reason on List"])) = 2

-----------------------------------------------------------------------------
(* Claims about the ids of the serviceable candidates *)

\* The ids of the inventory table and of the items attached to the addresses
RealIds ==
    {df_inventory[i]["InventoryItem_id"] : i \in 1..Len(df_inventory)}
        \cup UNION {Range(addresses[n].inventory_items) : n \in 1..Len(addresses)}

\* C26: when the serviceable candidates are the entries of the filter, every
\* id in the reason sets of combine_removal_lists and every InventoryItem_id
\* of the table it returns is an id of the inventory table or of an item
\* attached to an address; a candidate of an address without items adds
\* none.
C26_NoPlaceholderIds ==
    prog = "combine" =>
        /\ \A i \in 1..Len(inventory_reasons) : inventory_reasons[i].iid \in RealIds
        /\ pc = "done" =>
             \A i \in 1..Len(df_final) : df_final[i]["InventoryItem_id"] \in RealIds

-----------------------------------------------------------------------------
(* Claims about empty responses *)

\* The three requests of main succeed, a job is listed, and the inventory
\* response or the accounts response has no entity
EmptyInput ==
    /\ prog = "main"
    /\ Null \notin {api.inventory, api.accounts, api.jobs}
    /\ api.jobs[1] # <<>>
    /\ api.inventory[1] = <<>> \/ api.accounts[1].rows = <<>>

\* C27: when the inventory response or the accounts response has zero
\* entities, main of GetRemovalsList.py raises nothing and, once it has
\* ended, has written a report, whose rows are all rows of the inventory
\* table.
C27_EmptyInputNotAnError ==
    EmptyInput =>
        /\ pc # "raised"
        /\ pc = "done" =>
              /\ csv # Null
              /\ \A i \in 1..Len(csv[1].rows) :
                    \E j \in 1..Len(df_inventory) :
                        csv[1].rows[i]["InventoryItem_id"]
                            = df_inventory[j]["InventoryItem_id"]

-----------------------------------------------------------------------------
(* Claims about the left merge of main *)

\* The merge of main has been done
Merged == prog = "main" /\ pc \notin {"fetch_inventory", "fetch_accounts", "merge",
                                       "returned", "raised"}

\* C28: in the left merge on Address_id, an inventory row whose Address_id
\* is missing is joined to no accounts row: its contact email, phone number
\* and end date are missing in the merged table, and so are Account_email,
\* Account_phone and end_date in its row of the report.
C28_MissingAddressMatchesNothing ==
    /\ Merged =>
          \A i \in 1..Len(merged) :
              merged[i]["Address_id"] = NA =>
                  /\ merged[i]["Contact_email_address"] = NA
                  /\ merged[i]["PhoneNumber_number_formatted"] = NA
                  /\ merged[i]["AssignmentHistory1_end_date"] = NA
    /\ MainWritten =>
          \A i \in 1..Len(csv[1].rows) :
              csv[1].rows[i]["Address_id"] = NA =>
                  /\ csv[1].rows[i]["Account_email"] = NA
                  /\ csv[1].rows[i]["Account_phone"] = NA
                  /\ csv[1].rows[i]["end_date"] = NA

\* The rows of the accounts table for the account of a report row
OwnAccountRows(r) ==
    { j \in 1..Len(df_accounts.rows) :
        /\ notna(r["Account_id"])
        /\ notna(df_accounts.rows[j]["Account_id"])
        /\ KeyText(df_accounts.rows[j]["Account_id"]) = KeyText(r["Account_id"]) }

\* C29: in every row of the report that has an address, each of
\* Account_email, Account_phone and end_date is missing or is the contact
\* email, phone number or end date of an accounts row whose Account_id is
\* the row's Account_id: none is taken from another account, also when
\* several accounts have the row's address as their first address.
C29_AccountFieldsOfOwnAccount ==
    MainWritten =>
        \A i \in 1..Len(csv[1].rows) :
            LET r   == csv[1].rows[i]
                own == {df_accounts.rows[j] : j \in OwnAccountRows(r)}
            IN  notna(r["Address_id"]) =>
                  /\ r["Account_email"] \in
                        {NA} \cup {a["Contact_email_address"] : a \in own}
                  /\ r["Account_phone"] \in
                        {NA} \cup {a["PhoneNumber_number_formatted"] : a \in own}
                  /\ r["end_date"] \in
                        {NA} \cup {a["AssignmentHistory1_end_date"] : a \in own}

-----------------------------------------------------------------------------
(* Claims about a missing account status *)

\* Every history of the address has an account and one of them has no
\* account_status
HasNullStatus(address) ==
    /\ address.histories # <<>>
    /\ ~AnyNoAccount(address.histories)
    /\ \E i \in 1..Len(address.histories) :
          address.histories[i].account[1].account_status = Null

\* C30: the filter raises nothing, and every address it has gone through
\* whose histories all have an account, one of them with a null
\* account_status, has an entry with the reason "Has inactive account".
C30_NullStatusIsInactive ==
    prog = "filter" =>
        /\ pc # "raised"
        /\ \A n \in 1..Len(addresses) :
              (n < idx /\ HasNullStatus(addresses[n])) =>
                  \E i \in EntriesOf(n) :
                      filtered_addresses[i].reason = R_HasInactive

====
